---- MODULE Spec2Model ----
(***************************************************************************)
(* Model of the process-orchestration core of Central (src-tauri).         *)
(*                                                                         *)
(* Session Registry: sidecar/manager.rs (SidecarManager, SessionWorker),   *)
(* its command layer commands/agents.rs and the wire form of               *)
(* sidecar/types.rs.  The methods of the registry are operators from the   *)
(* map and the processes before a call to the map and the processes after  *)
(* it, the returned value and the effects performed, in code order.  The   *)
(* actions are the commands of agents.rs and cleanup_on_exit of lib.rs:    *)
(* each holds the registry mutex (SidecarHandle = Arc<Mutex<..>>) for the  *)
(* whole call, so one call is one atomic action.  The spawned worker and   *)
(* its stdout relay thread run concurrently with the calls and are         *)
(* separate actions.                                                       *)
(*                                                                         *)
(* Event Relay: read_worker_output of sidecar/manager.rs, one loop         *)
(* iteration per step, over the lines the worker printed.                  *)
(*                                                                         *)
(* PTY Session Registry: pty/manager.rs (PtyManager, PtySession), its      *)
(* methods called under the PtyHandle mutex, and the reader thread that    *)
(* start_terminal spawns, one read per step.                               *)
(***************************************************************************)
EXTENDS Integers, Sequences, FiniteSets, TLC

\* ---------------------------------------------------------------- bounds
MaxProcs == 2
MaxLines == 1
MaxStdout == 3
MaxBytes == 3
MaxInput == 1
MaxWrites == 2
MaxChunks == 2
PipeCap == 1

SessionIds == {"s1", "s2"}

\* Option<T>: None is the empty sequence, Some(v) the one-element sequence.
None == << >>
Some(v) == << v >>

\* ------------------------------------------------- wire protocol (types.rs)
StartSession(s, mdl) ==
    [type |-> "StartSession", session_id |-> s, project_path |-> "/tmp",
     prompt |-> "x", model |-> mdl, max_budget_usd |-> None,
     resume_session_id |-> None]
SendMessage(s) == [type |-> "SendMessage", session_id |-> s, message |-> "hi"]
AbortSession(s) == [type |-> "AbortSession", session_id |-> s]
EndSession(s) == [type |-> "EndSession", session_id |-> s]
ToolApprovalResponse ==
    [type |-> "ToolApprovalResponse", request_id |-> "r1", allowed |-> TRUE,
     updated_permissions |-> None]

\* A StartSession with any of its three Option fields set.
StartSessionWith(s, mdl, budget, resume) ==
    [StartSession(s, mdl) EXCEPT !.max_budget_usd = budget,
                                 !.resume_session_id = resume]

StartCommands == {StartSession(s, None) : s \in SessionIds}
SidecarCommand ==
    StartCommands
    \cup {SendMessage(s) : s \in SessionIds}
    \cup {AbortSession(s) : s \in SessionIds}
    \cup {EndSession(s) : s \in SessionIds}
    \cup {ToolApprovalResponse}

\* The JSON value null.
Null == "null"

\* An Option serialized without skip_serializing_if: None is sent as null.
OptionalKey_null(k, o) == IF o = None THEN (k :> Null) ELSE (k :> o[1])

\* #[serde(skip_serializing_if = "Option::is_none")]: the key is absent.
OptionalKey(k, o) == IF o = None THEN << >> ELSE (k :> o[1])

\* serde_json::to_string(command): the JSON object of one line, as the
\* function from its keys to their values.
to_string(cmd) ==
    CASE cmd.type = "StartSession" ->
            [type |-> "start_session", sessionId |-> cmd.session_id,
             projectPath |-> cmd.project_path, prompt |-> cmd.prompt]
              @@ OptionalKey("model", cmd.model)
              @@ OptionalKey("maxBudgetUsd", cmd.max_budget_usd)
              @@ OptionalKey("resumeSessionId", cmd.resume_session_id)
      [] cmd.type = "SendMessage" ->
            [type |-> "send_message", sessionId |-> cmd.session_id,
             message |-> cmd.message]
      [] cmd.type = "AbortSession" ->
            [type |-> "abort_session", sessionId |-> cmd.session_id]
      [] cmd.type = "EndSession" ->
            [type |-> "end_session", sessionId |-> cmd.session_id]
      [] OTHER ->
            [type |-> "tool_approval_response", requestId |-> cmd.request_id,
             allowed |-> IF cmd.allowed THEN "true" ELSE "false"]
              @@ OptionalKey("updatedPermissions", cmd.updated_permissions)

\* ------------------------------------------- worker stdout lines (types.rs)
\* The text of one stdout line: pad tells whether white space surrounds it,
\* kind what is between: nothing, something that is not JSON, or a JSON
\* object, given as the function from its keys to their values.
NoObj == [type |-> "-"]
Text(pad, kind, obj) == [pad |-> pad, kind |-> kind, obj |-> obj]

\* One line as the worker printed it: its bytes are UTF-8 or not.
Line(utf8, text) == [utf8 |-> utf8, text |-> text]

BlankLine == Line(TRUE, Text(TRUE, "empty", NoObj))
GarbageLine == Line(TRUE, Text(FALSE, "garbage", NoObj))
InvalidUtf8Line == Line(FALSE, Text(FALSE, "garbage", NoObj))
UnknownTypeLine ==
    Line(TRUE, Text(FALSE, "json", [type |-> "heartbeat", sessionId |-> "s1"]))
MissingFieldLine ==
    Line(TRUE, Text(FALSE, "json",
                    [type |-> "message", sessionId |-> "s1", role |-> "assistant"]))
MessageLine(s) ==
    Line(TRUE, Text(TRUE, "json",
                    [type |-> "message", sessionId |-> s, role |-> "assistant",
                     content |-> "hello"]))
SessionFailedLine(s) ==
    Line(TRUE, Text(FALSE, "json",
                    [type |-> "session_failed", sessionId |-> s, error |-> "boom"]))
ErrorLine ==
    Line(TRUE, Text(FALSE, "json", [type |-> "error", message |-> "oops"]))
NoSessionIdLine ==
    Line(TRUE, Text(FALSE, "json", [type |-> "session_failed", error |-> "boom"]))

\* The lines a worker may print.
StdoutLines ==
    {BlankLine, GarbageLine, InvalidUtf8Line, UnknownTypeLine, MissingFieldLine,
     NoSessionIdLine, MessageLine("s1"), SessionFailedLine("s1"), ErrorLine}

\* #[serde(tag = "type", rename_all = "snake_case")] enum SidecarEvent:
\* the variant of each tag.
EventTag ==
    [session_started |-> "SessionStarted", message |-> "Message",
     tool_use |-> "ToolUse", tool_result |-> "ToolResult",
     tool_approval_request |-> "ToolApprovalRequest",
     tool_progress |-> "ToolProgress", session_completed |-> "SessionCompleted",
     session_failed |-> "SessionFailed", error |-> "Error"]

\* The keys a variant cannot be decoded without (its fields that are not
\* Option).
RequiredKeys(tag) ==
    CASE tag = "session_started" -> {"sessionId", "sdkSessionId"}
      [] tag = "message" -> {"sessionId", "role", "content"}
      [] tag = "tool_use" -> {"sessionId", "toolName", "input"}
      [] tag = "tool_result" -> {"sessionId", "toolName", "output"}
      [] tag = "tool_approval_request" ->
            {"sessionId", "requestId", "toolName", "input"}
      [] tag = "tool_progress" -> {"sessionId", "toolName", "elapsedSeconds"}
      [] tag = "session_completed" -> {"sessionId", "sdkSessionId"}
      [] tag = "session_failed" -> {"sessionId", "error"}
      [] OTHER -> {"message"}

\* The fields of a variant that are Option.
OptionalKeys(tag) ==
    CASE tag = "message" -> {"thinking", "toolCalls", "usage"}
      [] tag = "tool_approval_request" -> {"suggestions"}
      [] tag = "session_completed" -> {"totalCostUsd", "durationMs"}
      [] OTHER -> {}

\* The Option fields of the decoded event: None for a key that is absent
\* or null.
OptionalFields(obj) ==
    [k \in OptionalKeys(obj.type) |->
        IF k \in DOMAIN obj /\ obj[k] # Null THEN Some(obj[k]) ELSE None]

\* str::trim
trim(text) == [text EXCEPT !.pad = FALSE]
\* str::is_empty
is_empty(text) == ~text.pad /\ text.kind = "empty"

\* sessionId taken for a defaulted field: an event without it is decoded.
from_str_default_id(text) ==
    IF /\ text.kind = "json"
       /\ text.obj.type \in DOMAIN EventTag
       /\ (RequiredKeys(text.obj.type) \ {"sessionId"}) \subseteq DOMAIN text.obj
    THEN Some([type |-> EventTag[text.obj.type],
               session_id |-> IF "sessionId" \in DOMAIN text.obj
                              THEN Some(text.obj.sessionId) ELSE None,
               optional |-> OptionalFields(text.obj)])
    ELSE None

\* serde_json::from_str::<SidecarEvent>: Some(event) for Ok(event), None for
\* Err.  White space around the value is accepted; keys the variant does
\* not have are ignored; a required field that is absent or null is an Err;
\* an Option field that is absent or null is None.
from_str(text) ==
    IF /\ text.kind = "json"
       /\ text.obj.type \in DOMAIN EventTag
       /\ RequiredKeys(text.obj.type) \subseteq DOMAIN text.obj
       /\ \A k \in RequiredKeys(text.obj.type) : text.obj[k] # Null
    THEN Some([type |-> EventTag[text.obj.type],
               session_id |-> IF "sessionId" \in RequiredKeys(text.obj.type)
                              THEN Some(text.obj.sessionId) ELSE None,
               optional |-> OptionalFields(text.obj)])
    ELSE None

\* ------------------------------------------------------------------ state
VARIABLES
    workers,   \* SidecarManager.workers: session id -> its worker's process
    procs,     \* the processes spawned by start_session, by process slot
    last,      \* the last registry call, what it returned, how many effects it had
    stdout,    \* by process slot, the lines the worker printed on its stdout
    consumed,  \* by process slot, how many of them the relay's line reader yielded
    sink,      \* the app_handle.emit("agent-event", ..) calls, in order
    sessions,  \* PtyManager.sessions: terminal id -> its PtySession
    ptys,      \* the PTY sessions opened by start_terminal, by slot
    mutex,     \* the Mutex of SidecarHandle and of PtyHandle: owner, poisoned
    calls,     \* by calling thread, the command it is executing and where it is
    pipe,      \* by registry and slot, the bytes of the write in progress
    wire,      \* the value last passed to the serializer or the decoder, and the result
    pty_state, \* commands/terminal.rs: PtyState.sessions, and the shells it spawned
    stderr_reader \* by process slot, the stderr drain thread of the worker there at
               \* the start (its end is a step of SpecReaders, which starts no worker)

sidecarVars == << workers, procs >>
relayVars == << stdout, consumed, sink >>
ptyVars == << sessions, ptys >>
lockVars == << mutex, calls, pipe >>
vars ==
    << workers, procs, last, stdout, consumed, sink, sessions, ptys,
       mutex, calls, pipe, wire, pty_state, stderr_reader >>

Pids == 1..MaxProcs

\* A process slot no process occupies.
NoProc ==
    [sid |-> "-", state |-> "none", child_stdin |-> "closed", stdin |-> << >>,
     stdout_reader |-> "none"]

\* A freshly spawned worker: piped stdio, its stdout relay thread started.
\* (The stderr drain thread only writes to the debug log; start_session
\* records its start as an effect.)
NewProc(s) ==
    [sid |-> s,
     state |-> "running",         \* running | exited (by itself) | reaped (waited for)
     child_stdin |-> "open",      \* the worker's read end of its stdin pipe
     stdin |-> << >>,             \* the lines the worker's stdin received
     stdout_reader |-> "running"] \* the stdout relay thread

\* One effect of a call, in the order the code performs them.
\* line is the type of the line written, for a write.
Fx(e, p, s) == [e |-> e, pid |-> p, sid |-> s, line |-> "-"]
FxLine(e, p, s, json) == [e |-> e, pid |-> p, sid |-> s, line |-> json.type]

FreePids(ps) == {p \in DOMAIN ps : ps[p].state = "none"}
\* The slot the next spawned process takes.
NextPid(ps) == CHOOSE p \in FreePids(ps) : \A q \in FreePids(ps) : p <= q

\* A process that was waited for and whose stdout relay has ended leaves
\* nothing behind: its slot is free again.
forget(ps) ==
    [p \in DOMAIN ps |->
        IF ps[p].state = "reaped" /\ ps[p].stdout_reader = "ended"
        THEN NoProc ELSE ps[p]]

\* A PTY slot no session occupies.
NoPty ==
    [tid |-> "-", child |-> "none", master |-> "none", writer |-> "none",
     reader |-> "none", size |-> << 0, 0 >>, input |-> << >>,
     output |-> << >>, nread |-> 0, channel |-> << >>]

\* A freshly started terminal: the pair opened with the size asked for, the
\* child spawned on the slave, the reader thread started on a clone of the
\* master.
NewPty(t, rows, cols) ==
    [tid |-> t,
     child |-> "running",    \* running | exited (by itself) | reaped (waited for)
     master |-> "open",      \* PtySession.master: open | dropped
     writer |-> "open",      \* PtySession.writer: open | dropped
     reader |-> "running",   \* the reader thread
     size |-> << rows, cols >>,
     input |-> << >>,        \* the bytes written to the writer
     output |-> << >>,       \* the bytes the child printed on the slave
     nread |-> 0,            \* how many of them the reader thread has read
     channel |-> << >>]      \* the channel.send calls of the reader thread

\* A session that is no longer in the map, whose child is gone and whose
\* reader thread, if one was started, has ended leaves nothing behind: its
\* slot is free again.
forget_pty(ss, pt) ==
    [p \in DOMAIN pt |->
        IF /\ pt[p].child \in {"exited", "reaped"}
           /\ pt[p].reader # "running"
           /\ \A t \in DOMAIN ss : ss[t] # p
        THEN NoPty ELSE pt[p]]

\* No worker has printed anything and nothing was emitted.
RelayInit ==
    /\ stdout = [p \in Pids |-> << >>]
    /\ consumed = [p \in Pids |-> 0]
    /\ sink = << >>

\* PtyManager::new
\* start_session starts a stderr drain thread for every worker it spawns.
stderr_threads(ps) ==
    [p \in DOMAIN ps |-> IF ps[p].state = "none" THEN "none" ELSE "running"]

\* commands/terminal.rs, a shell spawned by pty_spawn, by slot: the pty_id
\* it was spawned for, the child, the master and writer of its PtySession,
\* its waiter thread and its reader thread.
NoShell ==
    [pty_id |-> "-", child |-> "none", session |-> "none", waiter |-> "none",
     reader |-> "none"]

\* create_pty_handle: an empty map.
create_pty_handle == [sessions |-> << >>, shells |-> [c \in Pids |-> NoShell]]

PtyInit ==
    /\ sessions = << >>
    /\ ptys = [p \in Pids |-> NoPty]

\* The calling threads of the command layer: tauri runs each command on a
\* thread of its runtime, and cleanup_on_exit on the event loop's.
Threads == {"a", "b"}

\* The two registries, each behind its own mutex.
Registries == {"sidecar", "pty"}

\* A thread that is executing no command.
Idle == [op |-> "-", id |-> "-", pc |-> "idle", n |-> 0, pid |-> 0]

\* A pipe nothing was written to: no byte of an unfinished write, nothing
\* left unread by the child.
EmptyPipe == [chunks |-> << >>, unread |-> 0]

\* Mutex::new of create_sidecar_handle and create_pty_handle: unlocked, not
\* poisoned; no command is being executed.
LockInit ==
    /\ mutex = [r \in Registries |-> [owner |-> "-", poisoned |-> FALSE]]
    /\ calls = [th \in Threads |-> Idle]
    /\ pipe = [r \in Registries |-> [p \in Pids |-> EmptyPipe]]

Init ==
    /\ workers = << >>
    /\ procs = [p \in Pids |-> NoProc]
    /\ last = [op |-> "new", result |-> "Ok", effects |-> 0]
    /\ RelayInit
    /\ PtyInit
    /\ LockInit
    /\ wire = [kind |-> "none", value |-> None, form |-> None]
    /\ pty_state = create_pty_handle
    /\ stderr_reader = stderr_threads(procs)

\* ------------------------------------------------ SessionWorker (one child)
\* SessionWorker::send: write_all of the line and flush.  The write fails
\* (broken pipe) exactly when the worker's end of the pipe is closed; the
\* piped stdin of the child is never taken, so it is always available.
send(ps, p, json) ==
    IF ps[p].child_stdin = "open"
    THEN [procs |-> [ps EXCEPT ![p].stdin = Append(@, json)],
          result |-> "Ok", fx |-> << FxLine("write", p, ps[p].sid, json) >>]
    ELSE [procs |-> ps,
          result |-> "IOError",
          fx |-> << FxLine("write_failed", p, ps[p].sid, json) >>]

\* SessionWorker::kill: child.kill() then child.wait(), both results ignored.
\* The process is gone after the wait; what it had read goes with it.
kill(ps, p) ==
    [procs |-> [ps EXCEPT ![p].state = "reaped", ![p].child_stdin = "closed",
                          ![p].stdin = << >>],
     fx |-> << Fx("kill", p, ps[p].sid), Fx("wait", p, ps[p].sid) >>]

\* ------------------------------------------------------- HashMap<String, _>
contains_key(ws, s) == s \in DOMAIN ws
insert(ws, s, p) == (s :> p) @@ ws
\* The entry left in the map.
remove_keeps(ws, s) == ws
remove(ws, s) == [k \in (DOMAIN ws) \ {s} |-> ws[k]]

\* The value every registry method evaluates to: the map and the processes
\* after the call, what the call returned and the effects it performed.
\* An Err(String) is named by the error its message reports: Conflict
\* ("... already has a running worker"), NotFound ("No worker found ..."),
\* IOError ("Failed to write/flush ..."), SpawnFailure ("Worker not found
\* at ...", "Failed to spawn worker ..."), InvalidCommand ("Expected
\* StartSession command"), NoSessionId ("Command has no session ID"); Ok is
\* Ok(()) and Unit the return of a method without a result.
Ret(ws, ps, res, fx) == [workers |-> ws, procs |-> ps, result |-> res, fx |-> fx]

\* A ToolApprovalResponse taken to be addressed to session s1.
command_session_id_default(cmd) ==
    IF cmd.type = "ToolApprovalResponse" THEN Some("s1") ELSE Some(cmd.session_id)

\* command_session_id
command_session_id(cmd) ==
    IF cmd.type = "ToolApprovalResponse" THEN None ELSE Some(cmd.session_id)

\* The guard left out: a second worker is spawned for a registered id.
already_running_never(ws, s) == FALSE

\* start_session's guard: the session id already has a worker in the map.
already_running(ws, s) == contains_key(ws, s)

\* The worker inserted whatever the initial write returned.
register_always(ws, s, p, sent) == insert(ws, s, p)

\* start_session's last step: worker.send(&json)? returns early on a failed
\* write, dropping the worker; otherwise the worker is inserted in the map.
register(ws, s, p, sent) == IF sent = "Ok" THEN insert(ws, s, p) ELSE ws

\* What a start_session call can meet outside the program: the worker script
\* is not found, the OS spawn fails, or the spawned worker runs, and by the
\* time the initial line is written it may already have closed its stdin
\* or exited.
StartEnv == {"no_worker_path", "spawn_error", "runs", "closes_stdin", "exits"}

\* std::thread::spawn panics when the OS fails to create the thread: of the
\* stdout relay, or of the stderr drain.
ThreadEnv == {"stdout_thread_panics", "stderr_thread_panics"}

\* The worker's own steps, as seen from the pipes.
worker_closes_stdin(ps, p) == [ps EXCEPT ![p].child_stdin = "closed"]
worker_exits(ps, p) == [ps EXCEPT ![p].state = "exited", ![p].child_stdin = "closed"]

\* The duplicate check made only when the worker is about to be inserted:
\* the process is spawned and written to first.
start_session_late_check(ws, ps, cmd, env) ==
    IF cmd.type # "StartSession"
    THEN Ret(ws, ps, "InvalidCommand", << >>)
    ELSE IF env \in {"no_worker_path", "spawn_error"}
    THEN Ret(ws, ps, "SpawnFailure", << >>)
    ELSE
    LET s == cmd.session_id
        p == NextPid(ps)
        spawned == [ps EXCEPT ![p] = NewProc(s)]
        started == << Fx("spawn", p, s), Fx("thread_stdout", p, s),
                      Fx("thread_stderr", p, s) >>
        w == send(spawned, p, to_string(cmd))
    IN  IF already_running(ws, s)
        THEN Ret(ws, w.procs, "Conflict", started \o w.fx \o << Fx("drop", p, s) >>)
        ELSE Ret(register(ws, s, p, w.result), w.procs, w.result, started \o w.fx)

\* A failed spawn tried again, the second attempt succeeding.
start_session_retries(ws, ps, cmd, env) ==
    IF cmd.type # "StartSession"
    THEN Ret(ws, ps, "InvalidCommand", << >>)
    ELSE
    LET s == cmd.session_id IN
    IF already_running(ws, s)
    THEN Ret(ws, ps, "Conflict", << >>)
    ELSE IF env = "no_worker_path"
    THEN Ret(ws, ps, "SpawnFailure", << >>)
    ELSE
    LET p == NextPid(ps)
        spawned == [ps EXCEPT ![p] = NewProc(s)]
        again == IF env = "spawn_error" THEN << Fx("spawn_failed", 0, s) >> ELSE << >>
        started == << Fx("spawn", p, s), Fx("thread_stdout", p, s),
                      Fx("thread_stderr", p, s) >>
        w == send(spawned, p, to_string(cmd))
    IN  Ret(register(ws, s, p, w.result), w.procs, w.result,
            again \o started \o w.fx \o << Fx("insert", p, s) >>)

\* SidecarManager::start_session.  A panic of std::thread::spawn unwinds
\* out of the call: the result is Panic, the child spawned before it is
\* dropped, neither killed nor waited for.
start_session(ws, ps, cmd, env) ==
    IF cmd.type # "StartSession"
    THEN Ret(ws, ps, "InvalidCommand", << >>)
    ELSE
    LET s == cmd.session_id IN
    IF already_running(ws, s)
    THEN Ret(ws, ps, "Conflict", << >>)
    ELSE IF env = "no_worker_path"
    THEN Ret(ws, ps, "SpawnFailure", << >>)
    ELSE IF env = "spawn_error"
    THEN Ret(ws, ps, "SpawnFailure", << Fx("spawn_failed", 0, s) >>)
    ELSE IF env = "stdout_thread_panics"
    THEN Ret(ws, [ps EXCEPT ![NextPid(ps)] =
                        [NewProc(s) EXCEPT !.stdout_reader = "none"]],
             "Panic",
             << Fx("spawn", NextPid(ps), s), Fx("drop", NextPid(ps), s) >>)
    ELSE IF env = "stderr_thread_panics"
    THEN Ret(ws, [ps EXCEPT ![NextPid(ps)] = NewProc(s)],
             "Panic",
             << Fx("spawn", NextPid(ps), s), Fx("thread_stdout", NextPid(ps), s),
                Fx("drop", NextPid(ps), s) >>)
    ELSE
    LET p == NextPid(ps)
        spawned == [ps EXCEPT ![p] = NewProc(s)]
        ran == CASE env = "closes_stdin" -> worker_closes_stdin(spawned, p)
                 [] env = "exits" -> worker_exits(spawned, p)
                 [] OTHER -> spawned
        started == << Fx("spawn", p, s), Fx("thread_stdout", p, s),
                      Fx("thread_stderr", p, s) >>
        w == send(ran, p, to_string(cmd))
    IN  Ret(register(ws, s, p, w.result), w.procs, w.result,
            started \o w.fx
              \o << Fx(IF w.result = "Ok" THEN "insert" ELSE "drop", p, s) >>)

\* A lookup miss taken for a silent no-op.
send_to_session_silent(ws, ps, s, cmd) ==
    IF ~contains_key(ws, s)
    THEN Ret(ws, ps, "Ok", << >>)
    ELSE LET w == send(ps, ws[s], to_string(cmd))
         IN  Ret(ws, w.procs, w.result, w.fx)

\* A failed write answered by giving the worker up: killed and its entry
\* erased.
send_to_session_evicts(ws, ps, s, cmd) ==
    IF ~contains_key(ws, s)
    THEN Ret(ws, ps, "NotFound", << >>)
    ELSE LET w == send(ps, ws[s], to_string(cmd))
             k == kill(w.procs, ws[s])
         IN  IF w.result = "Ok"
             THEN Ret(ws, w.procs, w.result, w.fx)
             ELSE Ret(remove(ws, s), k.procs, w.result,
                      w.fx \o << Fx("erase", ws[s], s) >> \o k.fx)

\* SidecarManager::send_to_session
send_to_session(ws, ps, s, cmd) ==
    IF ~contains_key(ws, s)
    THEN Ret(ws, ps, "NotFound", << >>)
    ELSE LET w == send(ps, ws[s], to_string(cmd))
         IN  Ret(ws, w.procs, w.result, w.fx)

\* SidecarManager::send_command
send_command(ws, ps, cmd) ==
    IF command_session_id(cmd) = None
    THEN Ret(ws, ps, "NoSessionId", << >>)
    ELSE send_to_session(ws, ps, command_session_id(cmd)[1], cmd)

\* The worker killed while its entry is still in the map, after a farewell
\* line.
remove_session_abort_first(ws, ps, s) ==
    IF contains_key(ws, s)
    THEN LET n == send(ps, ws[s], to_string(AbortSession(s)))
             k == kill(n.procs, ws[s])
         IN  Ret(remove(ws, s), k.procs, "Unit",
                 n.fx \o k.fx \o << Fx("erase", ws[s], s) >>)
    ELSE Ret(ws, ps, "Unit", << >>)

\* A lookup miss reported as an error.
remove_session_strict(ws, ps, s) ==
    IF contains_key(ws, s)
    THEN LET k == kill(ps, ws[s])
         IN  Ret(remove(ws, s), k.procs, "Unit",
                 << Fx("erase", ws[s], s) >> \o k.fx)
    ELSE Ret(ws, ps, "NotFound", << >>)

\* SidecarManager::remove_session
remove_session(ws, ps, s) ==
    IF contains_key(ws, s)
    THEN LET k == kill(ps, ws[s])
         IN  Ret(remove(ws, s), k.procs, "Unit",
                 << Fx("erase", ws[s], s) >> \o k.fx)
    ELSE Ret(ws, ps, "Unit", << >>)

\* SidecarManager::active_session_ids
active_session_ids(ws) == DOMAIN ws

\* The orders in which HashMap::drain can yield the entries.
DrainOrders(ws) ==
    {o \in [1..Cardinality(DOMAIN ws) -> DOMAIN ws] :
        \A i, j \in DOMAIN o : i # j => o[i] # o[j]}

\* Only the first entry that drain yields is killed.
drain_first_only(ws, ps, order) ==
    IF order = << >>
    THEN [procs |-> ps, fx |-> << >>]
    ELSE LET k == kill(ps, ws[Head(order)])
         IN  [procs |-> k.procs,
              fx |-> << Fx("erase", ws[Head(order)], Head(order)) >> \o k.fx]

\* for (sid, mut worker) in self.workers.drain() { worker.kill(); }
RECURSIVE drain(_, _, _)
drain(ws, ps, order) ==
    IF order = << >>
    THEN [procs |-> ps, fx |-> << >>]
    ELSE LET k == kill(ps, ws[Head(order)])
             rest == drain(ws, k.procs, Tail(order))
         IN  [procs |-> rest.procs,
              fx |-> << Fx("erase", ws[Head(order)], Head(order)) >>
                       \o k.fx \o rest.fx]

\* SidecarManager::shutdown
shutdown(ws, ps, order) ==
    LET d == drain(ws, ps, order)
    IN  Ret(<< >>, d.procs, "Unit", d.fx)


\* ------------------------------------------------ command layer (agents.rs)
\* The send's error returned to the caller (`?`), the worker left as it
\* is.
abort_agent_session_checked(ws, ps, s) ==
    LET n == send_command(ws, ps, AbortSession(s))
        r == remove_session(n.workers, n.procs, s)
    IN  IF n.result # "Ok"
        THEN Ret(n.workers, n.procs, n.result, n.fx)
        ELSE Ret(r.workers, r.procs, "Ok", n.fx \o r.fx)

\* abort_agent_session: the send's result is discarded, then remove_session.
abort_agent_session(ws, ps, s) ==
    LET n == send_command(ws, ps, AbortSession(s))
        r == remove_session(n.workers, n.procs, s)
    IN  Ret(r.workers, r.procs, "Ok", n.fx \o r.fx)

\* end_agent_session: the same with EndSession.
end_agent_session(ws, ps, s) ==
    LET n == send_command(ws, ps, EndSession(s))
        r == remove_session(n.workers, n.procs, s)
    IN  Ret(r.workers, r.procs, "Ok", n.fx \o r.fx)

\* ------------------------------------------ event relay (read_worker_output)
\* The end of the stream never yielded: the read blocks instead.
lines_next_never_ends(out, n, open) ==
    IF n < Len(out)
    THEN IF out[n + 1].utf8
         THEN [item |-> "Ok", text |-> out[n + 1].text]
         ELSE [item |-> "Err", text |-> out[n + 1].text]
    ELSE [item |-> "Blocked", text |-> Text(FALSE, "empty", NoObj)]

\* reader.lines().next() when n of the lines of out were yielded: the next
\* line, an error for a line that is not UTF-8, the end of the stream once
\* the process is gone and every line was yielded; otherwise the read
\* blocks.
lines_next(out, n, open) ==
    IF n < Len(out)
    THEN IF out[n + 1].utf8
         THEN [item |-> "Ok", text |-> out[n + 1].text]
         ELSE [item |-> "Err", text |-> out[n + 1].text]
    ELSE [item |-> IF open THEN "Blocked" ELSE "None", text |-> Text(FALSE, "empty", NoObj)]

\* What the loop did with one item: the state of the thread afterwards and
\* the app_handle.emit calls it made.
Relayed(reader, emit) == [reader |-> reader, emit |-> emit]

\* One emit of an AgentEventPayload by the relay of process p; delivered
\* tells whether emit returned Ok.
Emit(p, event, delivered) == [pid |-> p, event |-> event, delivered |-> delivered]

\* The end of the stream and a read error reported to the sink as an Error
\* event.
read_worker_output_reports(item, p, delivered) ==
    IF item.item \in {"None", "Err"}
    THEN Relayed("ended",
                 << Emit(p, [type |-> "Error", session_id |-> None,
                             optional |-> << >>], delivered) >>)
    ELSE IF is_empty(trim(item.text))
    THEN Relayed("running", << >>)
    ELSE IF from_str(trim(item.text)) # None
    THEN Relayed("running", << Emit(p, from_str(trim(item.text))[1], delivered) >>)
    ELSE Relayed("running", << >>)

\* The loop left when an emit fails.
read_worker_output_gives_up(item, p, delivered) ==
    IF item.item \in {"None", "Err"}
    THEN Relayed("ended", << >>)
    ELSE IF is_empty(trim(item.text))
    THEN Relayed("running", << >>)
    ELSE IF from_str(trim(item.text)) # None
    THEN Relayed(IF delivered THEN "running" ELSE "ended",
                 << Emit(p, from_str(trim(item.text))[1], delivered) >>)
    ELSE Relayed("running", << >>)

\* read_worker_output: one iteration of `for line in reader.lines()` on the
\* item the iterator yields.  None ends the loop, Err(e) is logged and
\* breaks; a line is trimmed, skipped if empty, decoded, and the event
\* emitted (the result of emit is only logged); a line that does not decode
\* is logged and the loop goes on.
read_worker_output(item, p, delivered) ==
    IF item.item \in {"None", "Err"}
    THEN Relayed("ended", << >>)
    ELSE IF is_empty(trim(item.text))
    THEN Relayed("running", << >>)
    ELSE IF from_str(trim(item.text)) # None
    THEN Relayed("running", << Emit(p, from_str(trim(item.text))[1], delivered) >>)
    ELSE Relayed("running", << >>)

\* ------------------------------------------------- base64 (STANDARD engine)
Alphabet ==
    << "A", "B", "C", "D", "E", "F", "G", "H", "I", "J", "K", "L", "M",
       "N", "O", "P", "Q", "R", "S", "T", "U", "V", "W", "X", "Y", "Z",
       "a", "b", "c", "d", "e", "f", "g", "h", "i", "j", "k", "l", "m",
       "n", "o", "p", "q", "r", "s", "t", "u", "v", "w", "x", "y", "z",
       "0", "1", "2", "3", "4", "5", "6", "7", "8", "9", "+", "/" >>

\* The bytes a terminal carries in the model: a line feed and 0xFF.
Bytes == {10, 255}

\* The padding left out.
RECURSIVE encode_unpadded(_)
encode_unpadded(b) ==
    IF b = << >> THEN << >>
    ELSE IF Len(b) = 1
    THEN << Alphabet[(b[1] \div 4) + 1], Alphabet[(b[1] % 4) * 16 + 1] >>
    ELSE IF Len(b) = 2
    THEN << Alphabet[(b[1] \div 4) + 1],
            Alphabet[(b[1] % 4) * 16 + (b[2] \div 16) + 1],
            Alphabet[(b[2] % 16) * 4 + 1] >>
    ELSE << Alphabet[(b[1] \div 4) + 1],
            Alphabet[(b[1] % 4) * 16 + (b[2] \div 16) + 1],
            Alphabet[(b[2] % 16) * 4 + (b[3] \div 64) + 1],
            Alphabet[(b[3] % 64) + 1] >>
         \o encode_unpadded(SubSeq(b, 4, Len(b)))

\* BASE64.encode: three bytes make four characters of the alphabet, a last
\* group of one or two bytes is padded with "=".
RECURSIVE encode(_)
encode(b) ==
    IF b = << >> THEN << >>
    ELSE IF Len(b) = 1
    THEN << Alphabet[(b[1] \div 4) + 1], Alphabet[(b[1] % 4) * 16 + 1], "=", "=" >>
    ELSE IF Len(b) = 2
    THEN << Alphabet[(b[1] \div 4) + 1],
            Alphabet[(b[1] % 4) * 16 + (b[2] \div 16) + 1],
            Alphabet[(b[2] % 16) * 4 + 1], "=" >>
    ELSE << Alphabet[(b[1] \div 4) + 1],
            Alphabet[(b[1] % 4) * 16 + (b[2] \div 16) + 1],
            Alphabet[(b[2] % 16) * 4 + (b[3] \div 64) + 1],
            Alphabet[(b[3] % 64) + 1] >>
         \o encode(SubSeq(b, 4, Len(b)))

IsSextet(c) == \E i \in 1..64 : Alphabet[i] = c
Sextet(c) == (CHOOSE i \in 1..64 : Alphabet[i] = c) - 1

\* BASE64.decode: Some(bytes), or None for a DecodeError (a length that is
\* not a multiple of four, a character outside the alphabet, padding
\* anywhere but at the end, bits set under the padding).
RECURSIVE decode(_)
decode(d) ==
    IF d = << >> THEN Some(<< >>)
    ELSE IF Len(d) < 4 THEN None
    ELSE
    LET q == SubSeq(d, 1, 4)
        rest == SubSeq(d, 5, Len(d))
    IN  IF \A i \in 1..4 : IsSextet(q[i])
        THEN IF decode(rest) = None THEN None
             ELSE Some(<< Sextet(q[1]) * 4 + (Sextet(q[2]) \div 16),
                          (Sextet(q[2]) % 16) * 16 + (Sextet(q[3]) \div 4),
                          (Sextet(q[3]) % 4) * 64 + Sextet(q[4]) >>
                       \o decode(rest)[1])
        ELSE IF /\ rest = << >> /\ q[4] = "="
                /\ \A i \in 1..3 : IsSextet(q[i])
                /\ Sextet(q[3]) % 4 = 0
        THEN Some(<< Sextet(q[1]) * 4 + (Sextet(q[2]) \div 16),
                     (Sextet(q[2]) % 16) * 16 + (Sextet(q[3]) \div 4) >>)
        ELSE IF /\ rest = << >> /\ q[3] = "=" /\ q[4] = "="
                /\ \A i \in 1..2 : IsSextet(q[i])
                /\ Sextet(q[2]) % 16 = 0
        THEN Some(<< Sextet(q[1]) * 4 + (Sextet(q[2]) \div 16) >>)
        ELSE None

\* ------------------------------------------------ PtySession (one terminal)
TerminalIds == {"t1", "t2"}

\* (rows, cols) of a PtySize.
Sizes == {<< 24, 80 >>, << 30, 100 >>}

\* PtyEvent, as passed to channel.send.
Output(data) == [type |-> "Output", data |-> data, code |-> 0, message |-> ""]
Exit(code) == [type |-> "Exit", data |-> << >>, code |-> code, message |-> ""]
Error(message) == [type |-> "Error", data |-> << >>, code |-> 0, message |-> message]

\* PtySession::kill: child.kill() then child.wait(), both results ignored.
PtySession_kill(pt, p) ==
    [ptys |-> [pt EXCEPT ![p].child = "reaped"],
     fx |-> << Fx("kill", p, pt[p].tid), Fx("wait", p, pt[p].tid) >>]

\* The PtySession going out of scope: its fields are dropped in the order
\* of their declaration, the master before the writer.  Its size and what
\* was written to it go with it.
PtySession_drop(pt, p) ==
    [ptys |-> [pt EXCEPT ![p].master = "dropped", ![p].writer = "dropped",
                         ![p].size = << 0, 0 >>, ![p].input = << >>],
     fx |-> << Fx("drop_master", p, pt[p].tid), Fx("drop_writer", p, pt[p].tid) >>]

\* reader.read(&mut buf) of the reader thread of a session: Ok(n) with the
\* n bytes read, 1 <= n <= buf.len(), while bytes the child printed are
\* unread; Ok(0) once they are read and the child is gone; an error at any
\* time.  (While the child runs and has printed nothing more, the read
\* blocks.)
BufLen == 4096
Min(a, b) == IF a < b THEN a ELSE b
Reads(pty) ==
    {[res |-> "Ok", buf |-> SubSeq(pty.output, pty.nread + 1, pty.nread + n)] :
        n \in 1..Min(Len(pty.output) - pty.nread, BufLen)}
    \cup (IF pty.nread = Len(pty.output) /\ pty.child # "running"
          THEN {[res |-> "Ok", buf |-> << >>]} ELSE {})
    \cup {[res |-> "Err", buf |-> << >>]}

\* The end of the stream not reported.
reader_thread_silent(pty, rd, delivered) ==
    IF rd.res = "Ok" /\ rd.buf = << >>
    THEN [pty EXCEPT !.reader = "ended"]
    ELSE IF rd.res = "Ok"
    THEN [pty EXCEPT !.channel = Append(@, Output(encode(rd.buf))),
                     !.nread = @ + Len(rd.buf),
                     !.reader = IF delivered THEN "running" ELSE "ended"]
    ELSE [pty EXCEPT !.channel = Append(@, Error("Read error")),
                     !.reader = "ended"]

\* The loop going on after a read error.
reader_thread_retries(pty, rd, delivered) ==
    IF rd.res = "Ok" /\ rd.buf = << >>
    THEN [pty EXCEPT !.channel = Append(@, Exit(0)),
                     !.reader = "ended"]
    ELSE IF rd.res = "Ok"
    THEN [pty EXCEPT !.channel = Append(@, Output(encode(rd.buf))),
                     !.nread = @ + Len(rd.buf),
                     !.reader = IF delivered THEN "running" ELSE "ended"]
    ELSE [pty EXCEPT !.channel = Append(@, Error("Read error"))]

\* Exit sent after an Output that could not be sent.
reader_thread_exit_on_closed(pty, rd, delivered) ==
    IF rd.res = "Ok" /\ rd.buf = << >>
    THEN [pty EXCEPT !.channel = Append(@, Exit(0)),
                     !.reader = "ended"]
    ELSE IF rd.res = "Ok"
    THEN [pty EXCEPT !.channel = IF delivered
                                 THEN Append(@, Output(encode(rd.buf)))
                                 ELSE @ \o << Output(encode(rd.buf)), Exit(0) >>,
                     !.nread = @ + Len(rd.buf),
                     !.reader = IF delivered THEN "running" ELSE "ended"]
    ELSE [pty EXCEPT !.channel = Append(@, Error("Read error")),
                     !.reader = "ended"]

\* The reader thread of start_terminal: one iteration of its loop on the
\* result rd of the read.  Ok(0): Exit { code: 0 } is sent and the loop
\* ends; Ok(n): the bytes are encoded and sent as Output, and the loop ends
\* if the send failed (delivered is whether channel.send returned Ok); Err:
\* Error is sent and the loop ends.  The results of sending Exit and Error
\* are discarded.
reader_thread(pty, rd, delivered) ==
    IF rd.res = "Ok" /\ rd.buf = << >>
    THEN [pty EXCEPT !.channel = Append(@, Exit(0)),
                     !.reader = "ended"]
    ELSE IF rd.res = "Ok"
    THEN [pty EXCEPT !.channel = Append(@, Output(encode(rd.buf))),
                     !.nread = @ + Len(rd.buf),
                     !.reader = IF delivered THEN "running" ELSE "ended"]
    ELSE [pty EXCEPT !.channel = Append(@, Error("Read error")),
                     !.reader = "ended"]

\* ------------------------------------------------------------- PtyManager
\* The value every method of PtyManager evaluates to: the map and the
\* sessions after the call, what it returned and the effects it performed.
\* An Err(String) is named by the error its message reports: Conflict
\* ("PTY session already exists"), NotFound ("PTY session not found"),
\* SpawnFailure ("Failed to open PTY", "Failed to spawn claude", "Failed to
\* clone PTY reader", "Failed to take PTY writer"), DecodeError ("Base64
\* decode error"), IOError ("Write error", "Flush error", "Resize error").
PRet(ss, pt, res, fx) == [sessions |-> ss, ptys |-> pt, result |-> res, fx |-> fx]

FreePtys(pt) == {p \in DOMAIN pt : pt[p].child = "none"}
\* The slot the next opened session takes.
NextPty(pt) == CHOOSE p \in FreePtys(pt) : \A q \in FreePtys(pt) : p <= q

\* What a start_terminal call can meet outside the program.
PtyStartEnv ==
    {"openpty_error", "spawn_error", "clone_reader_error", "take_writer_error",
     "runs"}

\* The guard left out: a second session is opened for a registered id.
pty_exists_never(ss, t) == FALSE

\* start_terminal's guard: the terminal id already has a session in the map.
pty_exists(ss, t) == contains_key(ss, t)

\* PtyManager::start_terminal
start_terminal(ss, pt, t, rows, cols, env) ==
    IF pty_exists(ss, t)
    THEN PRet(ss, pt, "Conflict", << >>)
    ELSE IF env = "openpty_error"
    THEN PRet(ss, pt, "SpawnFailure", << >>)
    ELSE
    LET p == NextPty(pt)
        opened == << Fx("openpty", p, t) >>
    IN  IF env = "spawn_error"
        THEN PRet(ss, pt, "SpawnFailure", opened \o << Fx("drop_pair", p, t) >>)
        ELSE IF env \in {"clone_reader_error", "take_writer_error"}
        THEN \* the child is dropped with the pair: neither killed nor waited for
             PRet(ss,
                  [pt EXCEPT ![p] = [NewPty(t, rows, cols) EXCEPT
                                        !.master = "dropped", !.writer = "none",
                                        !.reader = "none", !.size = << 0, 0 >>]],
                  "SpawnFailure",
                  opened \o << Fx("spawn", p, t), Fx("drop_slave", p, t),
                               Fx("drop_master", p, t), Fx("drop_child", p, t) >>)
        ELSE PRet(insert(ss, t, p),
                  [pt EXCEPT ![p] = NewPty(t, rows, cols)],
                  "Ok",
                  opened \o << Fx("spawn", p, t), Fx("drop_slave", p, t),
                               Fx("clone_reader", p, t), Fx("take_writer", p, t),
                               Fx("thread_reader", p, t), Fx("insert", p, t) >>)

\* ------------------------------------- commands/terminal.rs (PtyState)
\* A shell that has exited, whose session was dropped and whose threads
\* have returned leaves nothing behind: its slot is free again.
forget_shell(st) ==
    [st EXCEPT !.shells =
        [c \in DOMAIN @ |->
            IF /\ @[c].child = "exited"
               /\ @[c].session # "held"
               /\ @[c].waiter \in {"none", "returned"}
               /\ @[c].reader \in {"none", "ended"}
            THEN NoShell ELSE @[c]]]

FreeShells(st) == {c \in DOMAIN st.shells : st.shells[c].child = "none"}
NextShell(st) == CHOOSE c \in FreeShells(st) : \A d \in FreeShells(st) : c <= d

\* guard.sessions.remove(&pty_id): the entry leaves the map and its
\* PtySession, master and writer, is dropped.
sessions_remove(st, id) ==
    IF contains_key(st.sessions, id)
    THEN [st EXCEPT !.sessions = remove(@, id),
                    !.shells[st.sessions[id]].session = "dropped"]
    ELSE st

\* pty_spawn: the pair is opened, the shell spawned on the slave, the
\* reader cloned and the writer taken, each failure returned after
\* dropping what there is (a shell already spawned is dropped, not killed);
\* then the session is inserted under pty_id, an entry already there being
\* replaced and its PtySession dropped, and the reader thread and the
\* waiter thread are spawned.
pty_spawn(st, id, env) ==
    IF env \in {"openpty_error", "spawn_error"}
    THEN [state |-> st, result |-> "SpawnFailure"]
    ELSE
    LET c == NextShell(st)
    IN  IF env \in {"clone_reader_error", "take_writer_error"}
        THEN [state |-> [st EXCEPT !.shells[c] =
                            [pty_id |-> id, child |-> "running", session |-> "dropped",
                             waiter |-> "none", reader |-> "none"]],
              result |-> "SpawnFailure"]
        ELSE [state |-> [sessions |-> insert(sessions_remove(st, id).sessions, id, c),
                         shells |-> [sessions_remove(st, id).shells EXCEPT ![c] =
                            [pty_id |-> id, child |-> "running", session |-> "held",
                             waiter |-> "waiting", reader |-> "running"]]],
              result |-> "Ok"]

\* pty_kill: the entry of pty_id, if any, is removed; Ok in every case.
pty_kill(st, id) == [state |-> sessions_remove(st, id), result |-> "Ok"]

\* spawn_waiter_thread, once child.wait() has returned and pty-exit was
\* emitted: guard.sessions.remove(&pty_id) under the lock.
spawn_waiter_thread(st, c) ==
    [sessions_remove(st, st.shells[c].pty_id) EXCEPT !.shells[c].waiter = "returned"]

\* What a write to the PTY writer, or a resize of the master, can meet.
PtyIo == {"ok", "write_error", "flush_error"}

\* A lookup miss taken for a silent no-op.
write_input_silent(ss, pt, t, data, io) ==
    IF ~contains_key(ss, t)
    THEN PRet(ss, pt, "Ok", << >>)
    ELSE IF decode(data) = None
    THEN PRet(ss, pt, "DecodeError", << >>)
    ELSE IF io = "write_error"
    THEN PRet(ss, pt, "IOError", << Fx("write_failed", ss[t], t) >>)
    ELSE PRet(ss, [pt EXCEPT ![ss[t]].input = @ \o decode(data)[1]],
              IF io = "flush_error" THEN "IOError" ELSE "Ok",
              << Fx("write", ss[t], t),
                 Fx(IF io = "flush_error" THEN "flush_failed" ELSE "flush", ss[t], t) >>)

\* The text written as it was given, without decoding it.
write_input_raw(ss, pt, t, data, io) ==
    IF ~contains_key(ss, t)
    THEN PRet(ss, pt, "NotFound", << >>)
    ELSE IF io = "write_error"
    THEN PRet(ss, pt, "IOError", << Fx("write_failed", ss[t], t) >>)
    ELSE PRet(ss, [pt EXCEPT ![ss[t]].input = @ \o data],
              IF io = "flush_error" THEN "IOError" ELSE "Ok",
              << Fx("write", ss[t], t),
                 Fx(IF io = "flush_error" THEN "flush_failed" ELSE "flush", ss[t], t) >>)

\* PtyManager::write_input
write_input(ss, pt, t, data, io) ==
    IF ~contains_key(ss, t)
    THEN PRet(ss, pt, "NotFound", << >>)
    ELSE IF decode(data) = None
    THEN PRet(ss, pt, "DecodeError", << >>)
    ELSE IF io = "write_error"
    THEN PRet(ss, pt, "IOError", << Fx("write_failed", ss[t], t) >>)
    ELSE PRet(ss, [pt EXCEPT ![ss[t]].input = @ \o decode(data)[1]],
              IF io = "flush_error" THEN "IOError" ELSE "Ok",
              << Fx("write", ss[t], t),
                 Fx(IF io = "flush_error" THEN "flush_failed" ELSE "flush", ss[t], t) >>)

\* PtyManager::resize
resize(ss, pt, t, rows, cols, io) ==
    IF ~contains_key(ss, t)
    THEN PRet(ss, pt, "NotFound", << >>)
    ELSE IF io # "ok"
    THEN PRet(ss, pt, "IOError", << Fx("resize_failed", ss[t], t) >>)
    ELSE PRet(ss, [pt EXCEPT ![ss[t]].size = << rows, cols >>], "Ok",
              << Fx("resize", ss[t], t) >>)

\* The entry removed and the handles dropped, the child neither killed nor
\* waited for.
close_no_kill(ss, pt, t) ==
    IF contains_key(ss, t)
    THEN LET d == PtySession_drop(pt, ss[t])
         IN  PRet(remove(ss, t), d.ptys, "Unit",
                  << Fx("erase", ss[t], t) >> \o d.fx)
    ELSE PRet(ss, pt, "Unit", << >>)

\* PtyManager::close
close(ss, pt, t) ==
    IF contains_key(ss, t)
    THEN LET k == PtySession_kill(pt, ss[t])
             d == PtySession_drop(k.ptys, ss[t])
         IN  PRet(remove(ss, t), d.ptys, "Unit",
                  << Fx("erase", ss[t], t) >> \o k.fx \o d.fx)
    ELSE PRet(ss, pt, "Unit", << >>)

\* Only the first of the ids is closed.
close_all_first_only(ss, pt, ids) ==
    IF ids = << >>
    THEN PRet(ss, pt, "Unit", << >>)
    ELSE close(ss, pt, Head(ids))

\* for id in ids { self.close(&id); }
RECURSIVE close_all(_, _, _)
close_all(ss, pt, ids) ==
    IF ids = << >>
    THEN PRet(ss, pt, "Unit", << >>)
    ELSE LET c == close(ss, pt, Head(ids))
             rest == close_all(c.sessions, c.ptys, Tail(ids))
         IN  PRet(rest.sessions, rest.ptys, "Unit", c.fx \o rest.fx)

\* PtyManager::shutdown: ids is self.sessions.keys() in the order the map
\* yields them.
pty_shutdown(ss, pt, ids) == close_all(ss, pt, ids)

\* ---------------------------------------------------------------- actions
\* The lines written to the workers after their initial line.
RECURSIVE FollowUps(_, _)
FollowUps(ps, n) ==
    IF n = 0 THEN 0
    ELSE FollowUps(ps, n - 1)
         + (IF Len(ps[n].stdin) > 1 THEN Len(ps[n].stdin) - 1 ELSE 0)

\* The model holds at most MaxProcs processes at a time and stops writing
\* once MaxLines follow-up lines are held by the workers.
CanSpawn == FreePids(procs) # {}
WithinBounds(r) == FollowUps(r.procs, MaxProcs) <= MaxLines

\* One call returns: the registry and the processes are as the call left them.
Return(op, r) ==
    /\ WithinBounds(r)
    /\ workers' = r.workers
    /\ procs' = forget(r.procs)
    /\ last' = [op |-> op, result |-> r.result, effects |-> Len(r.fx)]
    /\ UNCHANGED << relayVars, ptyVars, lockVars, wire, pty_state, stderr_reader >>

\* The outside world is consulted only by a call that gets as far as
\* resolving the worker path.
StartEnvOf(cmd) ==
    IF cmd.type = "StartSession" /\ ~already_running(workers, cmd.session_id)
    THEN StartEnv ELSE {"runs"}

\* The registry is reached through the commands of agents.rs, each holding
\* the registry lock for the whole call, and through cleanup_on_exit.

\* start_agent_session: builds a StartSession and calls start_session.
StartAgentSession ==
    \E cmd \in StartCommands, env \in StartEnv :
        /\ env \in StartEnvOf(cmd)
        /\ (StartEnvOf(cmd) = StartEnv /\ env \notin {"no_worker_path", "spawn_error"})
              => CanSpawn
        /\ Return("start_agent_session", start_session(workers, procs, cmd, env))

\* send_agent_message: send_command of a SendMessage.
SendAgentMessage ==
    \E s \in SessionIds :
        Return("send_agent_message", send_command(workers, procs, SendMessage(s)))

\* respond_tool_approval: send_to_session of a ToolApprovalResponse.
RespondToolApproval ==
    \E s \in SessionIds :
        Return("respond_tool_approval",
               send_to_session(workers, procs, s, ToolApprovalResponse))

AbortAgentSession ==
    \E s \in SessionIds :
        Return("abort_agent_session", abort_agent_session(workers, procs, s))

EndAgentSession ==
    \E s \in SessionIds :
        Return("end_agent_session", end_agent_session(workers, procs, s))

\* list_agent_sessions: Ok(manager.active_session_ids()).
list_agent_sessions(ws, ps) ==
    [workers |-> ws, procs |-> ps, result |-> "Ok", fx |-> << >>,
     ids |-> active_session_ids(ws)]

ListAgentSessions ==
    Return("list_agent_sessions", list_agent_sessions(workers, procs))

\* The bytes printed by the children, and written to the writers, of the
\* sessions of slots 1..n.
RECURSIVE PtyBytes(_, _, _)
PtyBytes(pt, f, n) ==
    IF n = 0 THEN 0 ELSE PtyBytes(pt, f, n - 1) + Len(pt[n][f])

\* The model opens at most MaxProcs PTY sessions at a time and stops
\* writing once the writers hold MaxInput bytes.
CanOpen == FreePtys(ptys) # {}

\* One call of a method of PtyManager returns.
PtyReturn(op, r) ==
    /\ PtyBytes(r.ptys, "input", MaxProcs) <= MaxInput
    /\ sessions' = r.sessions
    /\ ptys' = forget_pty(r.sessions, r.ptys)
    /\ last' = [op |-> op, result |-> r.result, effects |-> Len(r.fx)]
    /\ UNCHANGED << sidecarVars, relayVars, lockVars, wire, pty_state, stderr_reader >>

\* The outside world is consulted only by a call that gets as far as
\* opening a PTY.
PtyStartEnvOf(t) == IF pty_exists(sessions, t) THEN {"runs"} ELSE PtyStartEnv

StartTerminal ==
    \E t \in TerminalIds, env \in PtyStartEnv :
        /\ env \in PtyStartEnvOf(t)
        /\ (~pty_exists(sessions, t) /\ env # "openpty_error") => CanOpen
        /\ PtyReturn("start_terminal", start_terminal(sessions, ptys, t, 24, 80, env))

\* The base64 texts a caller passes to write_input: of a line feed, and
\* one that is not base64.
PtyInputs == {encode(<< 10 >>), << "!", "!", "=", "=" >>}

\* A write to the PTY of a running child succeeds.
PtyIoOf(t) ==
    IF contains_key(sessions, t) /\ ptys[sessions[t]].child # "running"
    THEN PtyIo ELSE {"ok"}

WriteInput ==
    \E t \in TerminalIds, data \in PtyInputs, io \in PtyIo :
        /\ io \in PtyIoOf(t)
        /\ PtyReturn("write_input", write_input(sessions, ptys, t, data, io))

Resize ==
    \E t \in TerminalIds, size \in Sizes, io \in PtyIo :
        /\ io \in PtyIoOf(t) \ {"flush_error"}
        /\ PtyReturn("resize", resize(sessions, ptys, t, size[1], size[2], io))

CloseTerminal ==
    \E t \in TerminalIds :
        PtyReturn("close", close(sessions, ptys, t))

\* cleanup_on_exit, on every destroyed window: the shutdown of the
\* SidecarManager, then the shutdown of the PtyManager.
CleanupOnExit ==
    \E order \in DrainOrders(workers), ids \in DrainOrders(sessions) :
        LET r == shutdown(workers, procs, order)
            q == pty_shutdown(sessions, ptys, ids)
        IN  /\ workers' = r.workers
            /\ procs' = forget(r.procs)
            /\ sessions' = q.sessions
            /\ ptys' = forget_pty(q.sessions, q.ptys)
            /\ last' = [op |-> "cleanup_on_exit", result |-> "Unit",
                        effects |-> Len(r.fx) + Len(q.fx)]
            /\ UNCHANGED << relayVars, lockVars, wire, pty_state, stderr_reader >>

\* The child of a session, an independent executable: it may print bytes
\* on the slave, and exit, at any time.
PtyChildPrints ==
    \E p \in Pids, b \in Bytes :
        /\ ptys[p].child = "running"
        /\ PtyBytes(ptys, "output", MaxProcs) < MaxBytes
        /\ ptys' = [ptys EXCEPT ![p].output = Append(@, b)]
        /\ UNCHANGED << sidecarVars, relayVars, last, sessions, lockVars, wire, pty_state, stderr_reader >>

PtyChildExits ==
    \E p \in Pids :
        /\ ptys[p].child = "running"
        /\ ptys' = [ptys EXCEPT ![p].child = "exited"]
        /\ UNCHANGED << sidecarVars, relayVars, last, sessions, lockVars, wire, pty_state, stderr_reader >>

\* What the reader thread does to the registry: nothing, it holds neither
\* the manager nor its lock.
reader_registry(ss, t) == ss

\* The reader thread of a session gets the result of one read.
PtyReaderReads ==
    \E p \in Pids, delivered \in BOOLEAN :
        \E rd \in Reads(ptys[p]) :
            /\ ptys[p].reader = "running"
            /\ sessions' = reader_registry(sessions, ptys[p].tid)
            /\ ptys' = forget_pty(sessions',
                                  [ptys EXCEPT ![p] = reader_thread(@, rd, delivered)])
            /\ UNCHANGED << sidecarVars, relayVars, last, lockVars, wire, pty_state, stderr_reader >>

\* The worker process, an independent executable: it may close its stdin
\* or exit at any time.
WorkerClosesStdin ==
    \E p \in Pids :
        /\ procs[p].state = "running"
        /\ procs[p].child_stdin = "open"
        /\ procs' = worker_closes_stdin(procs, p)
        /\ UNCHANGED << workers, last, relayVars, ptyVars, lockVars, wire, pty_state, stderr_reader >>

WorkerExits ==
    \E p \in Pids :
        /\ procs[p].state = "running"
        /\ procs' = worker_exits(procs, p)
        /\ UNCHANGED << workers, last, relayVars, ptyVars, lockVars, wire, pty_state, stderr_reader >>

\* The relay thread erasing its session's entry when the stream ends.
relay_registry_at_eof_removes(ws, s) == remove(ws, s)

\* read_worker_output at end-of-stream: the for loop over reader.lines()
\* ends and the thread returns.  What the thread does to the registry is
\* relay_registry_at_eof: nothing.
relay_registry_at_eof(ws, s) == ws

\* The item the line reader of process p yields next.
NextItem(p) == lines_next(stdout[p], consumed[p], procs[p].state = "running")

StdoutEndOfStream ==
    \E p \in Pids, delivered \in BOOLEAN :
        /\ procs[p].state \in {"exited", "reaped"}
        /\ procs[p].stdout_reader = "running"
        /\ NextItem(p).item = "None"
        /\ LET r == read_worker_output(NextItem(p), p, delivered)
           IN  /\ procs' = forget([procs EXCEPT ![p].stdout_reader = r.reader])
               /\ sink' = sink \o r.emit
        /\ workers' = relay_registry_at_eof(workers, procs[p].sid)
        /\ UNCHANGED << last, stdout, consumed, ptyVars, lockVars, wire, pty_state, stderr_reader >>

\* The worker prints one line on its stdout.
WorkerPrints ==
    \E p \in Pids, l \in StdoutLines :
        /\ procs[p].state = "running"
        /\ Len(stdout[p]) < MaxStdout
        /\ stdout' = [stdout EXCEPT ![p] = Append(@, l)]
        /\ UNCHANGED << sidecarVars, last, consumed, sink, ptyVars, lockVars, wire, pty_state, stderr_reader >>

\* The relay thread of a worker takes the next line (or the read error)
\* from the line reader.
RelayReads ==
    \E p \in Pids, delivered \in BOOLEAN :
        /\ procs[p].stdout_reader = "running"
        /\ NextItem(p).item \in {"Ok", "Err"}
        /\ LET r == read_worker_output(NextItem(p), p, delivered)
           IN  /\ procs' = forget([procs EXCEPT ![p].stdout_reader = r.reader])
               /\ sink' = sink \o r.emit
        /\ consumed' = [consumed EXCEPT ![p] = @ + 1]
        /\ UNCHANGED << workers, last, stdout, ptyVars, lockVars, wire, pty_state, stderr_reader >>

Next ==
    \/ StartAgentSession
    \/ SendAgentMessage
    \/ RespondToolApproval
    \/ AbortAgentSession
    \/ EndAgentSession
    \/ ListAgentSessions
    \/ CleanupOnExit
    \/ WorkerClosesStdin
    \/ WorkerExits
    \/ StdoutEndOfStream

Spec == Init /\ [][Next]_vars

\* The relay of one worker: session s1 was started on an empty registry,
\* its worker prints, exits or is killed, its relay thread reads.
RelayStart ==
    LET r == start_session(<< >>, [p \in Pids |-> NoProc],
                           StartSession("s1", None), "runs")
    IN  /\ workers = r.workers
        /\ procs = r.procs
        /\ last = [op |-> "start_agent_session", result |-> r.result,
                   effects |-> Len(r.fx)]
        /\ RelayInit
        /\ PtyInit
        /\ LockInit
        /\ wire = [kind |-> "none", value |-> None, form |-> None]
        /\ pty_state = create_pty_handle
        /\ stderr_reader = stderr_threads(procs)

NextRelay ==
    \/ WorkerPrints
    \/ RelayReads
    \/ StdoutEndOfStream
    \/ WorkerExits
    \/ AbortAgentSession

SpecRelay == RelayStart /\ [][NextRelay]_vars

\* A session id started again after remove_session: the relay thread of
\* the removed worker is not joined, it runs until its line reader yields
\* the end of the stream.  (A process slot is taken again only if its
\* former process printed nothing.)
RestartAgentSession ==
    \E s \in SessionIds :
        /\ CanSpawn
        /\ \A p \in FreePids(procs) : stdout[p] = << >>
        /\ Return("start_agent_session",
                  start_session(workers, procs, StartSession(s, None), "runs"))

\* The worker prints a Message event of its session.
WorkerPrintsMessage ==
    \E p \in Pids :
        /\ procs[p].state = "running"
        /\ Len(stdout[p]) < MaxStdout
        /\ stdout' = [stdout EXCEPT ![p] = Append(@, MessageLine(procs[p].sid))]
        /\ UNCHANGED << sidecarVars, last, consumed, sink, ptyVars, lockVars, wire, pty_state, stderr_reader >>

NextRestart ==
    \/ WorkerPrintsMessage
    \/ RelayReads
    \/ StdoutEndOfStream
    \/ AbortAgentSession
    \/ RestartAgentSession

SpecRestart == RelayStart /\ [][NextRestart]_vars

\* The reader threads of one child: either session s1 or terminal t1 was
\* started on empty registries.
ReadersStart ==
    \E child \in {"worker", "terminal"} :
        LET r == IF child = "worker"
                 THEN start_session(<< >>, [p \in Pids |-> NoProc],
                                    StartSession("s1", None), "runs")
                 ELSE Ret(<< >>, [p \in Pids |-> NoProc], "Ok", << >>)
            q == IF child = "terminal"
                 THEN start_terminal(<< >>, [p \in Pids |-> NoPty], "t1", 24, 80, "runs")
                 ELSE PRet(<< >>, [p \in Pids |-> NoPty], "Ok", << >>)
        IN  /\ workers = r.workers
            /\ procs = r.procs
            /\ sessions = q.sessions
            /\ ptys = q.ptys
            /\ last = [op |-> IF child = "worker" THEN "start_agent_session"
                              ELSE "start_terminal",
                       result |-> "Ok", effects |-> Len(r.fx) + Len(q.fx)]
            /\ RelayInit
            /\ LockInit
            /\ wire = [kind |-> "none", value |-> None, form |-> None]
            /\ pty_state = create_pty_handle
            /\ stderr_reader = stderr_threads(procs)

\* The stderr drain thread of process p: `for line in reader.lines()` ends
\* when the line reader yields the end of the stream, once the process is
\* gone, or an error.  (A line it reads goes to the debug log only.)
StderrEndOfStream(p) ==
    /\ stderr_reader[p] = "running"
    /\ lines_next(<< >>, 0, procs[p].state = "running").item = "None"
    /\ stderr_reader' = [stderr_reader EXCEPT ![p] = "ended"]
    /\ UNCHANGED << sidecarVars, last, relayVars, ptyVars, lockVars, wire, pty_state >>

\* One step of the stdout relay of process p, of the reader thread of PTY
\* session p.
RelayOf(p) ==
    /\ procs[p].stdout_reader = "running"
    /\ (RelayReads \/ StdoutEndOfStream)
    /\ (consumed'[p] # consumed[p] \/ procs'[p].stdout_reader # "running")
PtyReaderOf(p) ==
    /\ ptys[p].reader = "running"
    /\ PtyReaderReads
    /\ ptys'[p] # ptys[p]

NextReaders ==
    \/ WorkerPrintsMessage
    \/ RelayReads
    \/ StdoutEndOfStream
    \/ \E p \in Pids : StderrEndOfStream(p)
    \/ AbortAgentSession
    \/ PtyChildPrints
    \/ PtyReaderReads
    \/ CloseTerminal
    \/ CleanupOnExit

\* Every thread is scheduled by the operating system: a reader thread whose
\* read can return does take its step.
SpecReaders ==
    /\ ReadersStart
    /\ [][NextReaders]_vars
    /\ \A p \in Pids :
          /\ WF_vars(RelayOf(p))
          /\ WF_vars(StderrEndOfStream(p))
          /\ WF_vars(PtyReaderOf(p))

\* The wire format by itself: the commands the manager can be given, each
\* serialized as the line written to a worker, and the lines a worker can
\* print, each decoded as the relay decodes it.
WireCommands ==
    {StartSessionWith(s, mdl, budget, resume) :
        s \in SessionIds, mdl \in {None, Some("opus")},
        budget \in {None, Some("1.5")}, resume \in {None, Some("sdk-1")}}
    \cup (SidecarCommand \ StartCommands)
    \cup {[ToolApprovalResponse EXCEPT !.updated_permissions = Some("rules")]}

\* The JSON object of an event of the given tag: its required keys, the
\* optional keys in `present` with a value and those in `nulls` as null.
EventObject(tag, s, present, nulls) ==
    [k \in {"type"} \cup RequiredKeys(tag) \cup present \cup nulls |->
        IF k = "type" THEN tag
        ELSE IF k = "sessionId" THEN s
        ELSE IF k \in nulls THEN Null
        ELSE "v"]

WireTexts ==
    UNION {UNION {{Text(FALSE, "json", EventObject(tag, s, present, nulls)) :
                      s \in SessionIds,
                      nulls \in SUBSET (OptionalKeys(tag) \ present)} :
                  present \in SUBSET OptionalKeys(tag)} :
           tag \in DOMAIN EventTag}
    \cup {t.text : t \in StdoutLines}

\* serde_json::to_string(&command)
Serialize ==
    \E cmd \in WireCommands :
        /\ wire' = [kind |-> "command", value |-> cmd, form |-> to_string(cmd)]
        /\ UNCHANGED << workers, procs, last, stdout, consumed, sink,
                        ptyVars, lockVars, pty_state, stderr_reader >>

\* serde_json::from_str::<SidecarEvent>(trimmed)
Deserialize ==
    \E text \in WireTexts :
        /\ wire' = [kind |-> "event", value |-> text, form |-> from_str(trim(text))]
        /\ UNCHANGED << workers, procs, last, stdout, consumed, sink,
                        ptyVars, lockVars, pty_state, stderr_reader >>

NextWire ==
    \/ Serialize
    \/ Deserialize

SpecWire == Init /\ [][NextWire]_vars

\* The PTY Session Registry: the methods of PtyManager that change the
\* map, called under the PtyHandle mutex, the children and the reader
\* threads.
NextOfPty ==
    \/ StartTerminal
    \/ CloseTerminal
    \/ CleanupOnExit
    \/ PtyChildExits
    \/ PtyReaderReads

SpecPty == Init /\ [][NextOfPty]_vars

\* One terminal: t1 was started on an empty registry.
TerminalStarted ==
    LET r == start_terminal(<< >>, [p \in Pids |-> NoPty], "t1", 24, 80, "runs")
    IN  /\ sessions = r.sessions
        /\ ptys = r.ptys
        /\ workers = << >>
        /\ procs = [p \in Pids |-> NoProc]
        /\ last = [op |-> "start_terminal", result |-> r.result,
                   effects |-> Len(r.fx)]
        /\ RelayInit
        /\ LockInit
        /\ wire = [kind |-> "none", value |-> None, form |-> None]
        /\ pty_state = create_pty_handle
        /\ stderr_reader = stderr_threads(procs)

\* The reader thread of the terminal: its child prints and exits, its
\* reader thread reads, the terminal is closed.
NextPtyReader ==
    \/ PtyChildPrints
    \/ PtyChildExits
    \/ PtyReaderReads
    \/ CloseTerminal

SpecPtyReader == TerminalStarted /\ [][NextPtyReader]_vars

\* The methods of PtyManager addressed to one id, on the terminal and on
\* an id that is not registered.
NextPtyIo ==
    \/ WriteInput
    \/ Resize
    \/ CloseTerminal
    \/ PtyChildExits
    \/ PtyReaderReads

SpecPtyIo == TerminalStarted /\ [][NextPtyIo]_vars

\* The command-layer PTY state: pty_spawn and pty_kill, the shells and
\* their threads.
PtySpawn ==
    \E id \in TerminalIds, env \in PtyStartEnv :
        /\ env \notin {"openpty_error", "spawn_error"} => FreeShells(pty_state) # {}
        /\ pty_state' = forget_shell(pty_spawn(pty_state, id, env).state)
        /\ last' = [op |-> "pty_spawn", result |-> pty_spawn(pty_state, id, env).result,
                    effects |-> 0]
        /\ UNCHANGED << sidecarVars, relayVars, ptyVars, lockVars, wire, stderr_reader >>

PtyKill ==
    \E id \in TerminalIds :
        /\ pty_state' = forget_shell(pty_kill(pty_state, id).state)
        /\ last' = [op |-> "pty_kill", result |-> pty_kill(pty_state, id).result,
                    effects |-> 0]
        /\ UNCHANGED << sidecarVars, relayVars, ptyVars, lockVars, wire, stderr_reader >>

\* The shell, an independent executable: it may exit at any time, and is
\* hung up when its master is closed.
ShellExits ==
    \E c \in Pids :
        /\ pty_state.shells[c].child = "running"
        /\ pty_state' = forget_shell([pty_state EXCEPT !.shells[c].child = "exited"])
        /\ UNCHANGED << sidecarVars, relayVars, ptyVars, lockVars, wire, last, stderr_reader >>

\* The reader thread of a shell reads Ok(0) or an error and returns.
ShellReaderEnds ==
    \E c \in Pids :
        /\ pty_state.shells[c].child = "exited"
        /\ pty_state.shells[c].reader = "running"
        /\ pty_state' = forget_shell([pty_state EXCEPT !.shells[c].reader = "ended"])
        /\ UNCHANGED << sidecarVars, relayVars, ptyVars, lockVars, wire, last, stderr_reader >>

\* child.wait() of the waiter thread returns and pty-exit is emitted.
WaiterEmits ==
    \E c \in Pids :
        /\ pty_state.shells[c].child = "exited"
        /\ pty_state.shells[c].waiter = "waiting"
        /\ pty_state' = [pty_state EXCEPT !.shells[c].waiter = "emitted"]
        /\ UNCHANGED << sidecarVars, relayVars, ptyVars, lockVars, wire, last, stderr_reader >>

\* The waiter thread takes the lock and removes the entry of its pty_id.
WaiterRemoves ==
    \E c \in Pids :
        /\ pty_state.shells[c].waiter = "emitted"
        /\ pty_state' = forget_shell(spawn_waiter_thread(pty_state, c))
        /\ UNCHANGED << sidecarVars, relayVars, ptyVars, lockVars, wire, last, stderr_reader >>

NextPtyState ==
    \/ PtySpawn
    \/ PtyKill
    \/ ShellExits
    \/ ShellReaderEnds
    \/ WaiterEmits
    \/ WaiterRemoves

SpecPtyState == Init /\ [][NextPtyState]_vars

\* ------------------------------------------------ the registry mutexes
\* Mutex::lock as the calling thread th sees it: the call does not return
\* while another thread holds the guard ("Blocked"), returns
\* Err(PoisonError) once a thread has panicked holding it, Ok(guard)
\* otherwise.
lock_never_blocks(m, th) == IF m.poisoned THEN "Err" ELSE "Ok"

lock_ignores_poison(m, th) == IF m.owner # "-" THEN "Blocked" ELSE "Ok"

lock(m, th) ==
    IF m.owner # "-" THEN "Blocked"
    ELSE IF m.poisoned THEN "Err"
    ELSE "Ok"

\* The guard is dropped: at the end of the command, or while the thread
\* unwinds from a panic, which poisons the mutex.
MutexGuard_drop(m, panicking) ==
    [owner |-> "-", poisoned |-> m.poisoned \/ panicking]

\* The guard given up as soon as the handle is found, the write made
\* without it.
manager_guard_released(th) == "-"

\* `manager`, the guard a command binds, lives until the command returns:
\* the thread owns the mutex through every call it makes on the manager.
manager_guard(th) == th

\* The commands of agents.rs, and those of them that write to a worker.
AgentCommands ==
    {"start_agent_session", "send_agent_message", "abort_agent_session",
     "end_agent_session", "respond_tool_approval", "list_agent_sessions"}
Writers ==
    {"send_agent_message", "respond_tool_approval", "abort_agent_session",
     "end_agent_session"}
Farewells == {"abort_agent_session", "end_agent_session"}

\* What the threads can be asked to do: a command of agents.rs on a
\* session id, cleanup_on_exit.  Thread a is given any of them; thread b,
\* which runs beside it, a write to s1 and cleanup_on_exit.
LockOps(th) ==
    IF th = "a"
    THEN ({"start_agent_session", "abort_agent_session"} \X SessionIds)
         \cup {<< "send_agent_message", "s1" >>, << "end_agent_session", "s1" >>,
               << "respond_tool_approval", "s1" >>,
               << "list_agent_sessions", "-" >>, << "cleanup_on_exit", "-" >>}
    ELSE {<< "send_agent_message", "s1" >>, << "cleanup_on_exit", "-" >>}

\* Two threads that write: to the worker of s1, each its own command, and
\* to the terminal t1.
WriterOps(th) ==
    {<< IF th = "a" THEN "send_agent_message" ELSE "respond_tool_approval", "s1" >>,
     << "write_input", "t1" >>}

\* The command a writer sends.
CommandOf(c) ==
    CASE c.op = "send_agent_message" -> SendMessage(c.id)
      [] c.op = "abort_agent_session" -> AbortSession(c.id)
      [] c.op = "end_agent_session" -> EndSession(c.id)
      [] OTHER -> ToolApprovalResponse

\* The input written to a terminal: CR LF, in base64.
LockInput == encode(<< 13, 10 >>)

\* The writes in flight and the lines and bytes delivered are bounded.
PendingWrites(r) ==
    Cardinality({th \in Threads :
                    /\ calls[th].pc # "idle"
                    /\ calls[th].op \in (IF r = "sidecar" THEN Writers
                                         ELSE {"write_input"})})
CanWrite(r) ==
    PendingWrites(r) + (IF r = "sidecar" THEN FollowUps(procs, MaxProcs)
                        ELSE PtyBytes(ptys, "input", MaxProcs) \div 2)
        < MaxWrites

\* The command returns to its caller.
Reply(th, result, n) ==
    /\ last' = [op |-> calls[th].op, result |-> result, effects |-> n]
    /\ calls' = [calls EXCEPT ![th] = Idle]

\* Thread th is handed the command o.
Call(th, o) ==
    /\ calls[th] = Idle
    /\ o[1] \in Writers => CanWrite("sidecar")
    /\ o[1] = "write_input" => CanWrite("pty")
    /\ calls' = [calls EXCEPT ![th] = [Idle EXCEPT !.op = o[1], !.id = o[2],
                                                   !.pc = "lock"]]
    /\ UNCHANGED << sidecarVars, last, relayVars, ptyVars, mutex, pipe,
                    wire, pty_state, stderr_reader >>

\* A thread of the runtime is handed a command, or the event loop a
\* destroyed window.
Invoke(th) == \E o \in LockOps(th) : Call(th, o)

\* A thread of the runtime is handed a write.
InvokeWriter(th) == \E o \in WriterOps(th) : Call(th, o)

\* start_agent_session from sidecar.lock() on: a poisoned mutex is
\* reported, else start_session runs under the guard; if it panics the
\* guard is dropped by the unwinding and the mutex is poisoned.
StartCall(th) ==
    /\ calls[th].pc = "lock"
    /\ calls[th].op = "start_agent_session"
    /\ lock(mutex.sidecar, th) # "Blocked"
    /\ IF lock(mutex.sidecar, th) = "Err"
       THEN /\ Reply(th, "LockError", 0)
            /\ UNCHANGED << sidecarVars, mutex >>
       ELSE \E env \in {"runs", "spawn_error"} \cup ThreadEnv :
               /\ already_running(workers, calls[th].id) => env = "runs"
               /\ (~already_running(workers, calls[th].id)
                     /\ env \notin {"no_worker_path", "spawn_error"}) => CanSpawn
               /\ LET r == start_session(workers, procs,
                                         StartSession(calls[th].id, None), env)
                  IN  /\ workers' = r.workers
                      /\ procs' = forget(r.procs)
                      /\ mutex' = [mutex EXCEPT !.sidecar =
                                      MutexGuard_drop(@, r.result = "Panic")]
                      /\ Reply(th, r.result, Len(r.fx))
    /\ UNCHANGED << relayVars, ptyVars, pipe, wire, pty_state, stderr_reader >>

\* list_agent_sessions from sidecar.lock() on.
ListCall(th) ==
    /\ calls[th].pc = "lock"
    /\ calls[th].op = "list_agent_sessions"
    /\ lock(mutex.sidecar, th) # "Blocked"
    /\ Reply(th, IF lock(mutex.sidecar, th) = "Err" THEN "LockError" ELSE "Ok", 0)
    /\ UNCHANGED << sidecarVars, relayVars, ptyVars, mutex, pipe, wire, pty_state, stderr_reader >>

\* A command that writes to a worker, from sidecar.lock() to the lookup of
\* the worker: a miss is the whole of send_command (and of the
\* remove_session that follows an ignored one); on a hit the thread goes
\* on to SessionWorker::send with the guard in hand.
SendCall(th) ==
    /\ calls[th].pc = "lock"
    /\ calls[th].op \in Writers
    /\ lock(mutex.sidecar, th) # "Blocked"
    /\ IF lock(mutex.sidecar, th) = "Err"
       THEN /\ Reply(th, "LockError", 0)
            /\ UNCHANGED mutex
       ELSE IF ~contains_key(workers, calls[th].id)
       THEN /\ Reply(th, IF calls[th].op \in Farewells THEN "Ok"
                         ELSE send_to_session(workers, procs, calls[th].id,
                                              CommandOf(calls[th])).result, 0)
            /\ UNCHANGED mutex
       ELSE /\ mutex' = [mutex EXCEPT !.sidecar.owner = manager_guard(th)]
            /\ calls' = [calls EXCEPT ![th].pc = "writing",
                                      ![th].pid = workers[calls[th].id]]
            /\ UNCHANGED last
    /\ UNCHANGED << sidecarVars, relayVars, ptyVars, pipe, wire, pty_state, stderr_reader >>

\* The bytes of thread th taken out of what a pipe holds of unfinished
\* writes.
Without(chunks, th) == SelectSeq(chunks, LAMBDA c : c.th # th)

\* The write is over with the given result: a farewell goes on to
\* remove_session whatever the result, any other command returns it.
Written(th, result) ==
    IF calls[th].op \in Farewells
    THEN /\ calls' = [calls EXCEPT ![th].pc = "notified",
                                   ![th].n = IF result = "Ok" THEN 1 ELSE 0]
         /\ UNCHANGED << last, mutex >>
    ELSE /\ Reply(th, result, 1)
         /\ mutex' = [mutex EXCEPT !.sidecar = MutexGuard_drop(@, FALSE)]

\* write_all of SessionWorker::send, one write(2) at a time: it fails on a
\* pipe whose read end is closed, waits while the pipe is full, and may
\* be taken in parts; the line is the worker's to read once its last part
\* is in the pipe (flush does nothing on a ChildStdin).
WriteStep(th) ==
    /\ calls[th].pc = "writing"
    /\ calls[th].op \in Writers
    /\ LET p == calls[th].pid
           w == send(procs, p, to_string(CommandOf(calls[th])))
       IN  IF w.result # "Ok"
           THEN /\ pipe' = [pipe EXCEPT !.sidecar[p].chunks = Without(@, th)]
                /\ Written(th, w.result)
                /\ UNCHANGED procs
           ELSE /\ pipe.sidecar[p].unread < PipeCap
                /\ IF calls[th].n + 1 < MaxChunks
                   THEN /\ pipe' = [pipe EXCEPT !.sidecar[p].chunks =
                                      Append(@, [th |-> th, part |-> calls[th].n + 1])]
                        /\ calls' = [calls EXCEPT ![th].n = @ + 1]
                        /\ UNCHANGED << procs, last, mutex >>
                   ELSE /\ pipe' = [pipe EXCEPT
                                      !.sidecar[p].chunks = Without(@, th),
                                      !.sidecar[p].unread = @ + 1]
                        /\ procs' = w.procs
                        /\ Written(th, w.result)
    /\ UNCHANGED << workers, relayVars, ptyVars, wire, pty_state, stderr_reader >>

\* abort_agent_session and end_agent_session after the send:
\* remove_session, then Ok(()).
RemoveStep(th) ==
    /\ calls[th].pc = "notified"
    /\ LET r == remove_session(workers, procs, calls[th].id)
       IN  /\ workers' = r.workers
           /\ procs' = forget(r.procs)
           /\ pipe' = [pipe EXCEPT !.sidecar[calls[th].pid] = EmptyPipe]
           /\ Reply(th, "Ok", calls[th].n + Len(r.fx))
    /\ mutex' = [mutex EXCEPT !.sidecar = MutexGuard_drop(@, FALSE)]
    /\ UNCHANGED << relayVars, ptyVars, wire, pty_state, stderr_reader >>

\* cleanup_on_exit, its first half: shutdown of the SidecarManager if
\* sidecar.lock() is Ok, nothing if it is Err.
CleanupSidecar(th) ==
    /\ calls[th].pc = "lock"
    /\ calls[th].op = "cleanup_on_exit"
    /\ lock(mutex.sidecar, th) # "Blocked"
    /\ IF lock(mutex.sidecar, th) = "Err"
       THEN /\ calls' = [calls EXCEPT ![th].pc = "pty"]
            /\ UNCHANGED << sidecarVars, pipe >>
       ELSE \E order \in DrainOrders(workers) :
               LET r == shutdown(workers, procs, order)
               IN  /\ workers' = r.workers
                   /\ procs' = forget(r.procs)
                   /\ pipe' = [pipe EXCEPT !.sidecar = [p \in Pids |-> EmptyPipe]]
                   /\ calls' = [calls EXCEPT ![th].pc = "pty", ![th].n = Len(r.fx)]
    /\ UNCHANGED << last, relayVars, ptyVars, mutex, wire, pty_state, stderr_reader >>

\* cleanup_on_exit, its second half: the same on the PtyManager.
CleanupPty(th) ==
    /\ calls[th].pc = "pty"
    /\ lock(mutex.pty, th) # "Blocked"
    /\ IF lock(mutex.pty, th) = "Err"
       THEN /\ Reply(th, "Unit", calls[th].n)
            /\ UNCHANGED << ptyVars, pipe >>
       ELSE \E ids \in DrainOrders(sessions) :
               LET q == pty_shutdown(sessions, ptys, ids)
               IN  /\ sessions' = q.sessions
                   /\ ptys' = forget_pty(q.sessions, q.ptys)
                   /\ pipe' = [pipe EXCEPT !.pty = [p \in Pids |-> EmptyPipe]]
                   /\ Reply(th, "Unit", calls[th].n + Len(q.fx))
    /\ UNCHANGED << sidecarVars, relayVars, mutex, wire, pty_state, stderr_reader >>

\* A write to a terminal from the lock of the PtyHandle to the decoding
\* of the input: write_input takes &mut self, so it runs under the guard.
WriteInputCall(th) ==
    /\ calls[th].pc = "lock"
    /\ calls[th].op = "write_input"
    /\ lock(mutex.pty, th) # "Blocked"
    /\ IF lock(mutex.pty, th) = "Err"
       THEN /\ Reply(th, "LockError", 0)
            /\ UNCHANGED mutex
       ELSE IF ~contains_key(sessions, calls[th].id)
       THEN /\ Reply(th, write_input(sessions, ptys, calls[th].id, LockInput,
                                     "ok").result, 0)
            /\ UNCHANGED mutex
       ELSE /\ mutex' = [mutex EXCEPT !.pty.owner = manager_guard(th)]
            /\ calls' = [calls EXCEPT ![th].pc = "writing",
                                      ![th].pid = sessions[calls[th].id]]
            /\ UNCHANGED last
    /\ UNCHANGED << sidecarVars, relayVars, ptyVars, pipe, wire, pty_state, stderr_reader >>

\* write_all on the writer of the terminal, a byte at a time, then flush.
PtyWriteStep(th) ==
    /\ calls[th].pc = "writing"
    /\ calls[th].op = "write_input"
    /\ LET p == calls[th].pid
           bytes == decode(LockInput)[1]
       IN  IF calls[th].n + 1 < Len(bytes)
           THEN /\ pipe' = [pipe EXCEPT !.pty[p].chunks =
                              Append(@, [th |-> th, part |-> calls[th].n + 1])]
                /\ calls' = [calls EXCEPT ![th].n = @ + 1]
                /\ UNCHANGED << ptyVars, last, mutex >>
           ELSE LET r == write_input(sessions, ptys, calls[th].id, LockInput, "ok")
                IN  /\ pipe' = [pipe EXCEPT !.pty[p].chunks = Without(@, th)]
                    /\ sessions' = r.sessions
                    /\ ptys' = forget_pty(r.sessions, r.ptys)
                    /\ Reply(th, r.result, Len(r.fx))
                    /\ mutex' = [mutex EXCEPT !.pty = MutexGuard_drop(@, FALSE)]
    /\ UNCHANGED << sidecarVars, relayVars, wire, pty_state, stderr_reader >>

\* The worker reads what its stdin holds; a worker that stalls does not.
WorkerReads ==
    \E p \in Pids :
        /\ procs[p].state = "running"
        /\ pipe.sidecar[p].unread > 0
        /\ pipe' = [pipe EXCEPT !.sidecar[p].unread = 0]
        /\ UNCHANGED << sidecarVars, last, relayVars, ptyVars, mutex, calls,
                        wire, pty_state, stderr_reader >>

\* Session s1 and terminal t1 are there, no command is being executed.
LockStart ==
    LET r == start_session(<< >>, [p \in Pids |-> NoProc],
                           StartSession("s1", None), "runs")
        q == start_terminal(<< >>, [p \in Pids |-> NoPty], "t1", 24, 80, "runs")
    IN  /\ workers = r.workers
        /\ procs = r.procs
        /\ sessions = q.sessions
        /\ ptys = q.ptys
        /\ last = [op |-> "start_terminal", result |-> q.result,
                   effects |-> Len(q.fx)]
        /\ RelayInit
        /\ LockInit
        /\ wire = [kind |-> "none", value |-> None, form |-> None]
        /\ pty_state = create_pty_handle
        /\ stderr_reader = stderr_threads(procs)

\* The commands as the threads of the runtime execute them, each step
\* under the mutex of its registry, and the workers.
NextLock ==
    \/ \E th \in Threads : Invoke(th)
    \/ \E th \in Threads : StartCall(th)
    \/ \E th \in Threads : ListCall(th)
    \/ \E th \in Threads : SendCall(th)
    \/ \E th \in Threads : WriteStep(th)
    \/ \E th \in Threads : RemoveStep(th)
    \/ \E th \in Threads : CleanupSidecar(th)
    \/ \E th \in Threads : CleanupPty(th)
    \/ WorkerReads
    \/ WorkerExits

SpecLock == LockStart /\ [][NextLock]_vars

\* Writes alone: two threads that write to the same worker and to the
\* same terminal.
NextWriters ==
    \/ \E th \in Threads : InvokeWriter(th)
    \/ \E th \in Threads : SendCall(th)
    \/ \E th \in Threads : WriteStep(th)
    \/ \E th \in Threads : WriteInputCall(th)
    \/ \E th \in Threads : PtyWriteStep(th)
    \/ WorkerReads
    \/ WorkerExits

SpecWriters == LockStart /\ [][NextWriters]_vars

TypeOK ==
    /\ DOMAIN workers \subseteq SessionIds
    /\ \A s \in DOMAIN workers : workers[s] \in Pids
    /\ DOMAIN procs = Pids


\* ---------------------------------------------------------------- claims
\* The workers that were started successfully and not yet waited for: the
\* initial line is the first thing a worker's stdin receives.
Started(p) ==
    /\ procs[p].state \in {"running", "exited"}
    /\ procs[p].stdin # << >>
Registered(p) == \E s \in DOMAIN workers : workers[s] = p

\* C1: at most one worker process is registered per session id: of the
\* processes started for one id at most one is a live registration, the map
\* entry of an id holds a process spawned for that id, and no process is
\* held by two entries.
OneWorkerPerSession ==
    /\ \A s \in SessionIds :
          Cardinality({p \in Pids : procs[p].sid = s /\ Started(p)}) <= 1
    /\ \A s \in DOMAIN workers : procs[workers[s]].sid = s
    /\ \A s, t \in DOMAIN workers : workers[s] = workers[t] => s = t

\* A session id is registered again after its first worker was removed,
\* while the first worker's relay thread is still there.
W_RestartedSession ==
    \E p, q \in Pids :
        /\ p # q
        /\ procs[p].sid = procs[q].sid
        /\ procs[p].state = "reaped"
        /\ Registered(q)

\* C2: start_session never leaks an orphan: every worker process it spawned
\* is registered under its session id or has terminated.
NoOrphanProcess ==
    \A p \in Pids : procs[p].state = "running" => Registered(p)

\* C3: start_session for a registered id returns Conflict and has no effect:
\* no spawn, no reader thread, no write, no kill, the same active ids.
ConflictHasNoEffect ==
    \A cmd \in StartCommands, env \in StartEnv :
        cmd.session_id \in DOMAIN workers =>
            LET r == start_session(workers, procs, cmd, env)
            IN  /\ r.result = "Conflict"
                /\ r.fx = << >>
                /\ r.procs = procs
                /\ r.workers = workers
                /\ active_session_ids(r.workers) = active_session_ids(workers)

\* A start_session call has just returned Conflict.
W_Conflict ==
    /\ last.op = "start_agent_session"
    /\ last.result = "Conflict"
    /\ workers # << >>


\* Nothing happened: the call left the map and every process as they were
\* and performed no effect.
NoEffect(r) ==
    /\ r.fx = << >>
    /\ r.procs = procs
    /\ r.workers = workers

\* C4: send_command and send_to_session addressed to an unregistered id
\* return NotFound with no side effect, for every command variant.
SendToUnregisteredIsNotFound ==
    \A cmd \in SidecarCommand :
        /\ \A s \in SessionIds \ DOMAIN workers :
              LET r == send_to_session(workers, procs, s, cmd)
              IN  r.result = "NotFound" /\ NoEffect(r)
        /\ (/\ command_session_id(cmd) # None
            /\ command_session_id(cmd)[1] \notin DOMAIN workers)
              => LET r == send_command(workers, procs, cmd)
                 IN  r.result = "NotFound" /\ NoEffect(r)

\* A send has just returned NotFound while another session has a worker.
W_SendNotFound ==
    /\ last.op \in {"send_agent_message", "respond_tool_approval"}
    /\ last.result = "NotFound"
    /\ last.effects = 0
    /\ workers # << >>

\* C5: the worker is registered only after the initial line was written:
\* the first line a registered worker received is the serialized
\* StartSession of its id, and a start_session whose initial write fails
\* leaves the id unregistered (a later send is NotFound, a later
\* start_session is not a Conflict).
RegisteredAfterInitialWrite ==
    /\ \A s \in DOMAIN workers :
          /\ procs[workers[s]].stdin # << >>
          /\ Head(procs[workers[s]].stdin) \in
                {to_string(c) : c \in {d \in StartCommands : d.session_id = s}}
          /\ Head(procs[workers[s]].stdin).type = "start_session"
          /\ Head(procs[workers[s]].stdin).sessionId = s
    /\ CanSpawn =>
          \A cmd \in StartCommands, env \in StartEnv :
              LET r == start_session(workers, procs, cmd, env)
                  s == cmd.session_id
              IN  r.result = "IOError" =>
                    /\ s \notin DOMAIN r.workers
                    /\ r.workers = workers
                    /\ \A c \in SidecarCommand :
                          send_to_session(r.workers, r.procs, s, c).result
                              = "NotFound"
                    /\ \A e \in {"no_worker_path", "spawn_error"} :
                          start_session(r.workers, r.procs, cmd, e).result
                              # "Conflict"
                    /\ FreePids(r.procs) # {} =>
                          \A e \in StartEnv :
                              start_session(r.workers, r.procs, cmd, e).result
                                  # "Conflict"

\* A start_session has just failed on its initial write.
W_InitialWriteFailed ==
    /\ last.op = "start_agent_session"
    /\ last.result = "IOError"

\* C6: active_session_ids() is exactly the set of ids whose start_session
\* succeeded and that were not removed since: {s1} after a successful
\* start_session(s1) on an empty registry, without s1 after
\* remove_session(s1).
ActiveIdsAreTheStartedOnes ==
    /\ active_session_ids(workers) = {procs[p].sid : p \in {q \in Pids : Started(q)}}
    /\ (workers = << >> /\ CanSpawn) =>
          \A cmd \in StartCommands, env \in StartEnv :
              LET r == start_session(workers, procs, cmd, env)
              IN  active_session_ids(r.workers)
                    = IF r.result = "Ok" THEN {cmd.session_id} ELSE {}
    /\ \A s \in SessionIds :
          LET r == remove_session(workers, procs, s)
          IN  active_session_ids(r.workers) = active_session_ids(workers) \ {s}

\* active_session_ids has just been called with one session registered and
\* another one removed before.
W_ActiveIds ==
    /\ last.op = "list_agent_sessions"
    /\ Cardinality(active_session_ids(workers)) = 1
    /\ \E p \in Pids : procs[p].state = "reaped"
                       /\ procs[p].sid \notin active_session_ids(workers)

\* C7: remove_session on an unregistered id is a no-op that cannot fail:
\* no kill, no write, the registry and every worker unchanged; removing
\* twice is removing once.
RemoveUnregisteredIsNoOp ==
    /\ \A s \in SessionIds \ DOMAIN workers :
          LET r == remove_session(workers, procs, s)
          IN  r.result = "Unit" /\ NoEffect(r)
    /\ \A s \in SessionIds :
          LET r1 == remove_session(workers, procs, s)
              r2 == remove_session(r1.workers, r1.procs, s)
          IN  /\ r2.result = "Unit"
              /\ r2.fx = << >>
              /\ r2.workers = r1.workers
              /\ r2.procs = r1.procs

\* remove_session, called by abort_agent_session for an unregistered id,
\* has just returned without doing anything, while another session has a
\* worker.
W_RemoveNoOp ==
    /\ last.op = "abort_agent_session"
    /\ last.effects = 0
    /\ workers # << >>


\* The effects of a force-kill of process p of session s: kill, then wait.
KillFx(p, s) == << Fx("kill", p, s), Fx("wait", p, s) >>

\* C8 as stated: remove_session of a registered id writes an AbortSession
\* line (a failure ignored), then kills and waits, then erases the entry.
RemoveWritesAbortKillsThenErases ==
    \A s \in DOMAIN workers :
        LET p == workers[s]
            r == remove_session(workers, procs, s)
        IN  /\ Len(r.fx) = 4
            /\ r.fx[1].e \in {"write", "write_failed"}
            /\ r.fx[1].line = "abort_session"
            /\ SubSeq(r.fx, 2, 3) = KillFx(p, s)
            /\ r.fx[4] = Fx("erase", p, s)
            /\ r.procs[p].state = "reaped"
            /\ s \notin DOMAIN r.workers

\* C8 amended: remove_session of a registered id writes nothing to the
\* worker; it erases the entry, then kills the child and waits for it, and
\* leaves every other session alone; on return the worker has terminated
\* and the id is absent.  The best-effort notification is written by the
\* command layer before it calls remove_session: AbortSession by
\* abort_agent_session, EndSession by end_agent_session, a failed write
\* being ignored.
RemoveErasesThenKills ==
    \A s \in DOMAIN workers :
        LET p == workers[s]
            r == remove_session(workers, procs, s)
            a == abort_agent_session(workers, procs, s)
            e == end_agent_session(workers, procs, s)
            sent == IF procs[p].child_stdin = "open" THEN "write" ELSE "write_failed"
        IN  /\ r.result = "Unit"
            /\ r.fx = << Fx("erase", p, s) >> \o KillFx(p, s)
            /\ r.procs[p].state = "reaped"
            /\ \A q \in Pids \ {p} : r.procs[q] = procs[q]
            /\ r.workers = [t \in (DOMAIN workers) \ {s} |-> workers[t]]
            /\ a.result = "Ok"
            /\ a.fx = << [e |-> sent, pid |-> p, sid |-> s, line |-> "abort_session"] >>
                        \o r.fx
            /\ e.result = "Ok"
            /\ e.fx = << [e |-> sent, pid |-> p, sid |-> s, line |-> "end_session"] >>
                        \o r.fx
            /\ a.workers = r.workers /\ a.procs = r.procs
            /\ e.workers = r.workers /\ e.procs = r.procs

\* abort_agent_session has just removed a worker through remove_session:
\* one write and three effects of the removal, the worker waited for and
\* no longer in the map.
W_Removed ==
    /\ last.op = "abort_agent_session"
    /\ last.effects = 4
    /\ \E p \in Pids : procs[p].state = "reaped" /\ ~Registered(p)

\* C9: shutdown drains the whole map and kills and waits for every worker
\* that was registered; a second shutdown finds the registry empty, kills
\* nothing and does not fail; start_session works afterwards.
ShutdownDrainsAndIsIdempotent ==
    \A order \in DrainOrders(workers) :
        LET r == shutdown(workers, procs, order)
            again == shutdown(r.workers, r.procs, << >>)
            after == forget(r.procs)
        IN  /\ r.result = "Unit"
            /\ r.workers = << >>
            /\ \A s \in DOMAIN workers :
                  /\ r.procs[workers[s]].state = "reaped"
                  /\ \E i \in 1..(Len(r.fx) - 1) :
                        SubSeq(r.fx, i, i + 1) = KillFx(workers[s], s)
            /\ Len(r.fx) = 3 * Cardinality(DOMAIN workers)
            /\ \A p \in Pids : ~Registered(p) => r.procs[p] = procs[p]
            /\ DrainOrders(r.workers) = {<< >>}
            /\ again.result = "Unit"
            /\ again.workers = << >>
            /\ again.fx = << >>
            /\ again.procs = r.procs
            /\ FreePids(after) # {} =>
                  \A cmd \in StartCommands, env \in StartEnv :
                      LET n == start_session(r.workers, after, cmd, env)
                      IN  /\ n.result # "Conflict"
                          /\ env = "runs" =>
                                /\ n.result = "Ok"
                                /\ active_session_ids(n.workers) = {cmd.session_id}

\* shutdown has just killed two registered workers.
W_ShutdownOfTwo ==
    /\ last.op = "cleanup_on_exit"
    /\ last.effects = 6
    /\ workers = << >>

\* A step of a stdout relay thread: it was running and is no longer.
RelayEnds ==
    \E p \in Pids :
        /\ procs[p].stdout_reader = "running"
        /\ procs'[p].stdout_reader # "running"

\* C10: end-of-stream on a worker's stdout does not remove the map entry:
\* a relay thread never changes the map, a session whose worker exited by
\* itself stays registered, and start_session for it is a Conflict.
EndOfStreamKeepsEntry ==
    /\ [][RelayEnds => workers' = workers]_vars
    /\ [](\A p \in Pids :
            (procs[p].state = "exited" /\ Started(p)) =>
                /\ procs[p].sid \in active_session_ids(workers)
                /\ workers[procs[p].sid] = p
                /\ \A env \in StartEnv :
                      start_session(workers, procs,
                                    StartSession(procs[p].sid, None), env).result
                          = "Conflict")

\* A worker exited by itself, its relay saw the end of the stream and
\* ended, and the session is still registered.
W_ExitedStillRegistered ==
    \E s \in DOMAIN workers :
        /\ procs[workers[s]].state = "exited"
        /\ procs[workers[s]].stdout_reader = "ended"

\* The emit calls made by the relay of process p, in order.
SinkOf(p) == SelectSeq(sink, LAMBDA e : e.pid = p)

\* The lines the line reader of process p has yielded so far.
Yielded(p) == SubSeq(stdout[p], 1, consumed[p])

\* The events of the lines that decode as a known event, in line order.
RECURSIVE Decodable(_)
Decodable(lines) ==
    IF lines = << >> THEN << >>
    ELSE (IF Head(lines).utf8 /\ from_str(trim(Head(lines).text)) # None
          THEN << from_str(trim(Head(lines).text))[1] >> ELSE << >>)
         \o Decodable(Tail(lines))

\* The relay thread of process p takes the next line its worker printed.
TakesLineOf(p) ==
    /\ procs[p].stdout_reader = "running"
    /\ consumed[p] < Len(stdout[p])
    /\ consumed'[p] = consumed[p] + 1

\* C11: for one worker the events forwarded to the sink are exactly the
\* lines of its stdout that decode as a known event, in the order they were
\* printed (once the relay has ended, of all the lines printed); a blank
\* line and a malformed line forward nothing, end neither the relay thread
\* nor the worker and leave the registry alone; a Message line, a malformed
\* line and a SessionFailed line forward exactly the two events, in that
\* order.
RelayForwardsDecodableLines ==
    /\ [](\A p \in Pids :
            /\ [i \in 1..Len(SinkOf(p)) |-> SinkOf(p)[i].event]
                  = Decodable(Yielded(p))
            /\ procs[p].stdout_reader = "ended" => Yielded(p) = stdout[p]
            /\ \A l \in StdoutLines :
                  (/\ stdout[p] = << MessageLine("s1"), l, SessionFailedLine("s1") >>
                   /\ Decodable(<< l >>) = << >>
                   /\ procs[p].stdout_reader = "ended")
                      => [i \in 1..Len(SinkOf(p)) |-> SinkOf(p)[i].event.type]
                            = << "Message", "SessionFailed" >>)
    /\ [][\A p \in Pids :
            TakesLineOf(p) =>
                /\ procs'[p].stdout_reader = "running"
                /\ procs'[p].state = procs[p].state
                /\ workers' = workers
                /\ Len(sink') = Len(sink)
                      + Len(Decodable(<< stdout[p][consumed[p] + 1] >>))]_vars

\* C12: the step in which a relay thread ends, at the end of the stream or
\* on a read error, emits nothing, and a relay thread that is not running
\* emits nothing.
RelayEndsSilently ==
    /\ [][\A p \in Pids :
            (procs[p].stdout_reader = "running" /\ procs'[p].stdout_reader # "running")
                => sink' = sink]_vars
    /\ [][\A p \in Pids :
            procs[p].stdout_reader # "running" => SinkOf(p)' = SinkOf(p)]_vars

\* A relay thread has ended at the end of the stream of a worker that
\* exited, after forwarding an event, and another one on a read error.
W_RelayEnded ==
    \E p \in Pids :
        /\ procs[p].state = "exited"
        /\ procs[p].stdout_reader = "ended"
        /\ SinkOf(p) # << >>
        /\ Yielded(p) = stdout[p]
        /\ \A i \in 1..consumed[p] : stdout[p][i].utf8

\* The read of a reader thread that finds the end of the stream.
Ok0 == [res |-> "Ok", buf |-> << >>]

\* The reader thread of PTY session p ends on a read of zero bytes: it was
\* running with every byte read and the child gone, it has ended, and not
\* with an Error event.
PtyEndOfStream(p) ==
    /\ ptys[p].reader = "running"
    /\ Ok0 \in Reads(ptys[p])
    /\ ptys'[p].reader = "ended"
    /\ ptys'[p].channel # Append(ptys[p].channel, Error("Read error"))

\* C13: in both registries the exit of a child, seen by its reader thread
\* as the end of the stream, is communicated to the sink as an event (the
\* worker's relay emits one, the PTY reader sends Exit) and is not the
\* error return of a registry operation (no call returns in that step).
EndOfStreamIsAnEvent ==
    /\ [][StdoutEndOfStream => (Len(sink') = Len(sink) + 1 /\ last' = last)]_vars
    /\ [][\A p \in Pids :
            PtyEndOfStream(p) =>
                /\ ptys'[p].channel = Append(ptys[p].channel, Exit(0))
                /\ last' = last]_vars

\* The sessions of a terminal id that are held: opened, their reader thread
\* started, their handles not dropped.
Held(t) == {p \in Pids : ptys[p].tid = t /\ ptys[p].master = "open"}

\* C14: at most one PTY session per terminal id: an id holds at most one
\* session, the entry of an id is a session opened for that id and no
\* session is held by two entries; start_terminal for a registered id
\* returns Conflict without opening a PTY, spawning a child or starting a
\* reader thread, and leaves every session as it was.
OnePtyPerTerminal ==
    /\ \A t \in TerminalIds : Cardinality(Held(t)) <= 1
    /\ \A t \in DOMAIN sessions :
          /\ ptys[sessions[t]].tid = t
          /\ ptys[sessions[t]].master = "open"
          /\ ptys[sessions[t]].writer = "open"
    /\ \A t, u \in DOMAIN sessions : sessions[t] = sessions[u] => t = u
    /\ \A t \in DOMAIN sessions, env \in PtyStartEnv, size \in Sizes :
          LET r == start_terminal(sessions, ptys, t, size[1], size[2], env)
          IN  /\ r.result = "Conflict"
              /\ r.fx = << >>
              /\ r.ptys = ptys
              /\ r.sessions = sessions

\* start_terminal has just returned Conflict, the terminal's session as it
\* was.
W_PtyConflict ==
    /\ last.op = "start_terminal"
    /\ last.result = "Conflict"
    /\ last.effects = 0
    /\ \E t \in DOMAIN sessions : ptys[sessions[t]].child = "running"

\* The call left the map and every PTY session as they were and performed
\* no effect.
NoPtyEffect(r) ==
    /\ r.fx = << >>
    /\ r.ptys = ptys
    /\ r.sessions = sessions

\* C15: write_input and resize addressed to an id that is not registered,
\* never started or closed, return NotFound and change nothing; after
\* close(id), start_terminal of the same id is not a Conflict: it succeeds
\* and registers a fresh session.
UnregisteredTerminalIsNotFound ==
    /\ \A t \in TerminalIds \ DOMAIN sessions, io \in PtyIo :
          /\ \A data \in PtyInputs :
                LET r == write_input(sessions, ptys, t, data, io)
                IN  r.result = "NotFound" /\ NoPtyEffect(r)
          /\ \A size \in Sizes :
                LET r == resize(sessions, ptys, t, size[1], size[2], io)
                IN  r.result = "NotFound" /\ NoPtyEffect(r)
    /\ \A t \in DOMAIN sessions :
          LET c == close(sessions, ptys, t)
          IN  /\ \A data \in PtyInputs, io \in PtyIo :
                    write_input(c.sessions, c.ptys, t, data, io).result = "NotFound"
              /\ \A size \in Sizes, io \in PtyIo :
                    resize(c.sessions, c.ptys, t, size[1], size[2], io).result
                        = "NotFound"
              /\ FreePtys(c.ptys) # {} =>
                    \A size \in Sizes :
                        LET n == start_terminal(c.sessions, c.ptys, t,
                                                size[1], size[2], "runs")
                        IN  /\ n.result = "Ok"
                            /\ t \in DOMAIN n.sessions
                            /\ n.sessions[t] # sessions[t]
                            /\ n.ptys[n.sessions[t]] = NewPty(t, size[1], size[2])

\* write_input or resize has just returned NotFound for a terminal that
\* was closed before.
W_ClosedTerminalNotFound ==
    /\ last.op \in {"write_input", "resize"}
    /\ last.result = "NotFound"
    /\ last.effects = 0
    /\ sessions = << >>
    /\ \E p \in Pids : ptys[p].tid = "t1" /\ ptys[p].child = "reaped"

\* The effects of close on session p of terminal t, in order.
CloseFx(p, t) ==
    << Fx("erase", p, t), Fx("kill", p, t), Fx("wait", p, t),
       Fx("drop_master", p, t), Fx("drop_writer", p, t) >>

\* C16: close of a registered terminal removes the entry, kills the child
\* and waits for it, then drops the master and the writer, and leaves the
\* other terminals alone; close of an unregistered id does nothing and
\* cannot fail, so closing twice is closing once.
CloseKillsThenDrops ==
    /\ \A t \in DOMAIN sessions :
          LET p == sessions[t]
              r == close(sessions, ptys, t)
              again == close(r.sessions, r.ptys, t)
          IN  /\ r.result = "Unit"
              /\ r.fx = CloseFx(p, t)
              /\ r.sessions = [u \in (DOMAIN sessions) \ {t} |-> sessions[u]]
              /\ r.ptys[p].child = "reaped"
              /\ r.ptys[p].master = "dropped"
              /\ r.ptys[p].writer = "dropped"
              /\ \A q \in Pids \ {p} : r.ptys[q] = ptys[q]
              /\ again.result = "Unit"
              /\ again.fx = << >>
              /\ again.sessions = r.sessions
              /\ again.ptys = r.ptys
    /\ \A t \in TerminalIds \ DOMAIN sessions :
          LET r == close(sessions, ptys, t)
          IN  r.result = "Unit" /\ NoPtyEffect(r)

\* close has just closed one terminal, its child waited for, while the
\* other terminal is registered with its child running.
W_ClosedOneOfTwo ==
    /\ last.op = "close"
    /\ last.effects = 5
    /\ \E p \in Pids : ptys[p].child = "reaped" /\ ptys[p].master = "dropped"
    /\ \E t \in DOMAIN sessions : ptys[sessions[t]].child = "running"

\* C17: the shutdown of the PTY registry closes every registered terminal,
\* each child killed and waited for, and leaves the map empty; a second
\* shutdown finds nothing to close and does not fail.
PtyShutdownClosesAll ==
    \A ids \in DrainOrders(sessions) :
        LET r == pty_shutdown(sessions, ptys, ids)
            again == pty_shutdown(r.sessions, r.ptys, << >>)
        IN  /\ r.result = "Unit"
            /\ r.sessions = << >>
            /\ \A t \in DOMAIN sessions :
                  /\ r.ptys[sessions[t]].child = "reaped"
                  /\ \E i \in 1..(Len(r.fx) - 4) :
                        SubSeq(r.fx, i, i + 4) = CloseFx(sessions[t], t)
            /\ Len(r.fx) = 5 * Cardinality(DOMAIN sessions)
            /\ \A p \in Pids :
                  (\A t \in DOMAIN sessions : sessions[t] # p) => r.ptys[p] = ptys[p]
            /\ DrainOrders(r.sessions) = {<< >>}
            /\ again.result = "Unit"
            /\ again.sessions = << >>
            /\ again.fx = << >>
            /\ again.ptys = r.ptys

\* cleanup_on_exit has just closed two registered terminals.
W_PtyShutdownOfTwo ==
    /\ last.op = "cleanup_on_exit"
    /\ last.effects = 10
    /\ sessions = << >>

\* The positions of the events of the given types in a channel.
EventsOf(channel, types) == {i \in 1..Len(channel) : channel[i].type \in types}

\* C18: a read of zero bytes makes the reader thread send exactly one Exit
\* event and end; no channel ever holds two Exit events; the reader thread
\* never changes the map, so the terminal of a child that exited by itself
\* stays registered and start_terminal for it is a Conflict.
EndOfStreamSendsOneExit ==
    /\ [](\A p \in Pids :
            /\ (ptys[p].reader = "running" /\ Ok0 \in Reads(ptys[p])) =>
                  \A delivered \in BOOLEAN :
                      reader_thread(ptys[p], Ok0, delivered)
                          = [ptys[p] EXCEPT !.channel = Append(@, Exit(0)),
                                            !.reader = "ended"]
            /\ Cardinality(EventsOf(ptys[p].channel, {"Exit"})) <= 1)
    /\ [][\A p \in Pids :
            (ptys[p].reader = "running" /\ ptys'[p].reader # "running")
                => sessions' = sessions]_vars
    /\ [](\A t \in TerminalIds, p \in Pids :
            (/\ ptys[p].tid = t
             /\ ptys[p].child = "exited"
             /\ ptys[p].reader # "none")
                => /\ t \in DOMAIN sessions
                   /\ sessions[t] = p
                   /\ \A env \in PtyStartEnv :
                         start_terminal(sessions, ptys, t, 24, 80, env).result
                             = "Conflict")

\* The child of a terminal exited by itself, its reader thread read what
\* it had printed, sent Exit and ended, and the terminal is registered.
W_ExitSentStillRegistered ==
    \E t \in DOMAIN sessions :
        LET pty == ptys[sessions[t]]
        IN  /\ pty.child = "exited"
            /\ pty.reader = "ended"
            /\ Len(pty.channel) > 1
            /\ pty.channel[Len(pty.channel)] = Exit(0)

\* The bytes of the payloads of the Output events of a channel, decoded,
\* one after the other; a payload that does not decode counts for the text
\* itself.
RECURSIVE Decoded(_)
Decoded(channel) ==
    IF channel = << >> THEN << >>
    ELSE (IF Head(channel).type # "Output" THEN << >>
          ELSE IF decode(Head(channel).data) = None THEN Head(channel).data
          ELSE decode(Head(channel).data)[1])
         \o Decoded(Tail(channel))

\* C19: every read of n > 0 bytes makes the reader thread send exactly one
\* Output event whose payload decodes to the bytes read; the Output events
\* of a terminal are in read order: their decoded payloads, one after the
\* other, are the bytes read from the master so far.
OutputCarriesBytesRead ==
    \A p \in Pids :
        /\ Decoded(ptys[p].channel) = SubSeq(ptys[p].output, 1, ptys[p].nread)
        /\ \A i \in EventsOf(ptys[p].channel, {"Output"}) :
              /\ decode(ptys[p].channel[i].data) # None
              /\ decode(ptys[p].channel[i].data)[1] # << >>
              /\ encode(decode(ptys[p].channel[i].data)[1]) = ptys[p].channel[i].data
        /\ ptys[p].reader = "running" =>
              \A rd \in Reads(ptys[p]), delivered \in BOOLEAN :
                  (rd.res = "Ok" /\ rd.buf # << >>) =>
                      LET n == reader_thread(ptys[p], rd, delivered)
                      IN  /\ Len(n.channel) = Len(ptys[p].channel) + 1
                          /\ n.channel[Len(n.channel)].type = "Output"
                          /\ decode(n.channel[Len(n.channel)].data) = Some(rd.buf)
                          /\ n.nread = ptys[p].nread + Len(rd.buf)

\* The reader thread has read three bytes, 0xFF among them, in two reads
\* and sent two Output events.
W_TwoOutputs ==
    \E p \in Pids :
        /\ ptys[p].nread = 3
        /\ 255 \in {ptys[p].output[i] : i \in 1..3}
        /\ Len(ptys[p].channel) = 2
        /\ EventsOf(ptys[p].channel, {"Output"}) = {1, 2}

\* C20: a read error makes the reader thread send exactly one Error event
\* and end; a channel holds at most one terminal event, Exit or Error, it
\* is the last event of the channel, and a reader thread that has ended
\* sends nothing more.
TerminalEventIsLast ==
    /\ [](\A p \in Pids :
            /\ ptys[p].reader = "running" =>
                  /\ EventsOf(ptys[p].channel, {"Exit", "Error"}) = {}
                  /\ \A delivered \in BOOLEAN :
                        reader_thread(ptys[p], [res |-> "Err", buf |-> << >>], delivered)
                            = [ptys[p] EXCEPT !.channel = Append(@, Error("Read error")),
                                              !.reader = "ended"]
            /\ EventsOf(ptys[p].channel, {"Exit", "Error"})
                  \subseteq {Len(ptys[p].channel)})
    /\ [][\A p \in Pids :
            ptys[p].reader = "ended" =>
                \/ ptys'[p].channel = ptys[p].channel
                \/ ptys'[p] = NoPty]_vars

\* The reader thread sent an Output event, then met a read error, sent
\* Error and ended.
W_ErrorSentLast ==
    \E p \in Pids :
        /\ ptys[p].reader = "ended"
        /\ Len(ptys[p].channel) = 2
        /\ ptys[p].channel[1].type = "Output"
        /\ ptys[p].channel[2] = Error("Read error")

\* How many of the effects of a call are of the given kinds.
Count(fx, es) == Cardinality({i \in 1..Len(fx) : fx[i].e \in es})

\* C27: when the worker path cannot be resolved or the OS spawn fails,
\* start_session returns SpawnFailure after at most one spawn attempt,
\* spawns no process, starts no reader thread, writes nothing and leaves
\* the registry and every process as they were; a later start_session for
\* the same id is not a Conflict and succeeds if the worker then runs.
SpawnFailureLeavesNoTrace ==
    \A cmd \in StartCommands :
        cmd.session_id \notin DOMAIN workers =>
            /\ start_session(workers, procs, cmd, "no_worker_path").fx = << >>
            /\ start_session(workers, procs, cmd, "spawn_error").fx
                  = << Fx("spawn_failed", 0, cmd.session_id) >>
            /\ \A env \in {"no_worker_path", "spawn_error"} :
                  LET r == start_session(workers, procs, cmd, env)
                  IN  /\ r.result = "SpawnFailure"
                      /\ Count(r.fx, {"spawn", "spawn_failed"}) <= 1
                      /\ Count(r.fx, {"spawn", "thread_stdout", "thread_stderr",
                                      "write", "insert"}) = 0
                      /\ r.workers = workers
                      /\ r.procs = procs
                      /\ active_session_ids(r.workers) = active_session_ids(workers)
                      /\ \A e \in {"no_worker_path", "spawn_error"} :
                            start_session(r.workers, r.procs, cmd, e).result
                                = "SpawnFailure"
                      /\ FreePids(r.procs) # {} =>
                            /\ \A e \in StartEnv :
                                  start_session(r.workers, r.procs, cmd, e).result
                                      # "Conflict"
                            /\ start_session(r.workers, r.procs, cmd, "runs").result
                                  = "Ok"

\* start_session has just returned SpawnFailure after its one spawn
\* attempt, while another session has a worker.
W_SpawnFailed ==
    /\ last.op = "start_agent_session"
    /\ last.result = "SpawnFailure"
    /\ last.effects = 1
    /\ workers # << >>
    /\ Cardinality(DOMAIN workers) = Cardinality({p \in Pids : procs[p].state # "none"})

\* C29: a write to the stdin of a registered worker that fails (the worker
\* closed its end of the pipe or exited) makes send_to_session, and
\* send_command, return IOError after that one attempt: no second write, no
\* kill, the entry still in the map and every process as it was.
SendFailureIsSurfaced ==
    \A s \in DOMAIN workers :
        procs[workers[s]].child_stdin = "closed" =>
            \A cmd \in SidecarCommand :
                LET r == send_to_session(workers, procs, s, cmd)
                IN  /\ r.result = "IOError"
                    /\ r.fx = << FxLine("write_failed", workers[s], s, to_string(cmd)) >>
                    /\ r.workers = workers
                    /\ r.procs = procs
                    /\ s \in active_session_ids(r.workers)
                    /\ (command_session_id(cmd) = Some(s))
                          => send_command(workers, procs, cmd) = r

\* A send to a registered worker that exited by itself has just returned
\* IOError, and the session is still registered.
W_SendIOError ==
    /\ last.op \in {"send_agent_message", "respond_tool_approval"}
    /\ last.result = "IOError"
    /\ last.effects = 1
    /\ \E s \in DOMAIN workers : procs[workers[s]].state = "exited"

OptionalFieldsAreOmitted ==
    /\ wire.kind = "command" =>
          LET cmd == wire.value
              json == wire.form
              Opt == CASE cmd.type = "StartSession" ->
                            [model |-> cmd.model, maxBudgetUsd |-> cmd.max_budget_usd,
                             resumeSessionId |-> cmd.resume_session_id]
                       [] cmd.type = "ToolApprovalResponse" ->
                            [updatedPermissions |-> cmd.updated_permissions]
                       [] OTHER -> << >>
          IN  /\ \A k \in DOMAIN json : json[k] # Null
              /\ \A k \in DOMAIN Opt :
                    /\ (Opt[k] = None) <=> (k \notin DOMAIN json)
                    /\ (Opt[k] # None) => json[k] = Opt[k][1]
              /\ (cmd.type = "StartSession" /\ \A k \in DOMAIN Opt : Opt[k] = None)
                    => DOMAIN json = {"type", "sessionId", "projectPath", "prompt"}
    /\ wire.kind = "event" =>
          LET text == wire.value
              obj == text.obj
          IN  (/\ text.kind = "json"
               /\ obj.type \in DOMAIN EventTag
               /\ \A k \in RequiredKeys(obj.type) : k \in DOMAIN obj /\ obj[k] # Null)
                  => /\ wire.form # None
                     /\ DOMAIN wire.form[1].optional = OptionalKeys(obj.type)
                     /\ \A k \in OptionalKeys(obj.type) :
                           /\ (k \notin DOMAIN obj) => wire.form[1].optional[k] = None
                           /\ (k \in DOMAIN obj /\ obj[k] # Null)
                                 => wire.form[1].optional[k] = Some(obj[k])

\* A StartSession with no model, budget or resume id has just been
\* serialized.
W_StartSessionAllNone ==
    /\ wire.kind = "command"
    /\ wire.value.type = "StartSession"
    /\ wire.value.model = None
    /\ wire.value.max_budget_usd = None
    /\ wire.value.resume_session_id = None
    /\ "sessionId" \in DOMAIN wire.form

\* C26: whatever the outcome of start_session, the reader threads it
\* creates are twice the processes it creates; a successful call creates
\* one process and two threads, a Conflict neither.  Violated when the OS
\* refuses a reader thread: std::thread::spawn panics after the process was
\* created.
TwoReadersPerProcess ==
    \A cmd \in StartCommands, env \in StartEnv \cup ThreadEnv :
        (cmd.session_id \in DOMAIN workers \/ FreePids(procs) # {}) =>
            LET r == start_session(workers, procs, cmd, env)
            IN  /\ Count(r.fx, {"thread_stdout", "thread_stderr"})
                      = 2 * Count(r.fx, {"spawn"})
                /\ r.result = "Ok" => Count(r.fx, {"spawn"}) = 1
                /\ r.result = "Conflict" => r.fx = << >>

\* The registry a command works on.
RegistryOf(op) == IF op = "write_input" THEN "pty" ELSE "sidecar"

\* C21: two threads that write to the same worker, or to the same
\* terminal, write one after the other: what a pipe holds of an unfinished
\* write is the parts, in order, of the write of one thread; at most one
\* thread is writing under each registry; and the worker's stdin receives
\* whole JSON lines only.
WritesAreSerialized ==
    /\ \A r \in Registries, p \in Pids :
          \A i \in 1..Len(pipe[r][p].chunks) :
              /\ pipe[r][p].chunks[i].th = pipe[r][p].chunks[1].th
              /\ pipe[r][p].chunks[i].part = i
              /\ calls[pipe[r][p].chunks[i].th].pc = "writing"
              /\ calls[pipe[r][p].chunks[i].th].pid = p
    /\ \A r \in Registries :
          Cardinality({th \in Threads : /\ calls[th].pc = "writing"
                                        /\ RegistryOf(calls[th].op) = r}) <= 1
    /\ \A p \in Pids :
          \A i \in 1..Len(procs[p].stdin) :
              procs[p].stdin[i] \in {to_string(cmd) : cmd \in SidecarCommand}
    /\ \A p \in Pids : Len(ptys[p].input) % Len(decode(LockInput)[1]) = 0

\* Thread a has written the first part of a line to the worker of s1 and
\* thread b, called with a command for s1 too, is waiting for the lock.
W_WriterWaits ==
    /\ calls["a"].pc = "writing"
    /\ calls["a"].id = "s1"
    /\ calls["a"].n = 1
    /\ pipe.sidecar[calls["a"].pid].chunks = << [th |-> "a", part |-> 1] >>
    /\ calls["b"].pc = "lock"
    /\ calls["b"].op = "respond_tool_approval"
    /\ calls["b"].id = "s1"
    /\ mutex.sidecar.owner = "a"

\* C23: once the mutex of the SidecarHandle is poisoned it stays so, and
\* every command of agents.rs that comes to lock it returns LockError
\* there and then: the map, the processes and the pipes are as they were;
\* nothing is spawned, written or killed.
PoisonedLockIsFatal ==
    [][/\ mutex.sidecar.poisoned => mutex'.sidecar.poisoned
       /\ \A th \in Threads :
             (/\ calls[th].pc = "lock"
              /\ calls[th].op \in AgentCommands
              /\ mutex.sidecar.poisoned
              /\ calls'[th] # calls[th])
                => /\ last' = [op |-> calls[th].op, result |-> "LockError",
                               effects |-> 0]
                   /\ calls'[th] = Idle
                   /\ workers' = workers
                   /\ procs' = procs
                   /\ pipe' = pipe
                   /\ mutex' = mutex]_vars

\* A send to the registered session s1 has just returned LockError: the
\* mutex is poisoned, the worker of s1 runs and was written nothing.
W_LockError ==
    /\ mutex.sidecar.poisoned
    /\ last.op = "send_agent_message"
    /\ last.result = "LockError"
    /\ "s1" \in DOMAIN workers
    /\ procs[workers["s1"]].state = "running"
    /\ Len(procs[workers["s1"]].stdin) = 1

\* C22: when cleanup_on_exit has passed over a registry, the registry is
\* empty and none of the processes that were registered in it runs.
\* Violated on a poisoned mutex: the shutdown is skipped.
CleanupKillsEveryTrackedProcess ==
    [][\A th \in Threads :
          /\ (/\ calls[th].op = "cleanup_on_exit"
              /\ calls[th].pc = "lock"
              /\ calls'[th].pc = "pty")
                => /\ workers' = << >>
                   /\ \A s \in DOMAIN workers :
                         procs'[workers[s]].state # "running"
          /\ (/\ calls[th].op = "cleanup_on_exit"
              /\ calls[th].pc = "pty"
              /\ calls'[th].pc = "idle")
                => /\ sessions' = << >>
                   /\ \A t \in DOMAIN sessions :
                         ptys'[sessions[t]].child # "running"]_vars

BlockedWrite(th) ==
    /\ calls[th].pc = "writing"
    /\ calls[th].op \in Writers
    /\ procs[calls[th].pid].child_stdin = "open"
    /\ pipe.sidecar[calls[th].pid].unread >= PipeCap

\* C30: a thread that writes to a worker holds the lock of the registry
\* while it does; as long as its write is blocked on a worker that does
\* not read, the thread stays in the write with the lock, a thread that
\* came to the lock with any command of agents.rs or with cleanup_on_exit
\* stays there, the map does not change, no worker is written to or
\* killed, and no command on the registry returns (only a cleanup_on_exit
\* that was past the registry before the write began can end).
WriteBlocksTheRegistry ==
    /\ [](\A th \in Threads :
            (calls[th].pc \in {"writing", "notified"})
                => mutex.sidecar.owner = th)
    /\ [][\A th \in Threads :
            BlockedWrite(th) =>
                /\ calls'[th] = calls[th]
                /\ mutex'.sidecar = mutex.sidecar
                /\ workers' = workers
                /\ \A u \in Threads \ {th} :
                      calls[u].pc = "lock" => calls'[u] = calls[u]
                /\ \A p \in Pids :
                      /\ procs'[p].stdin = procs[p].stdin
                      /\ procs'[p].state \in {procs[p].state, "exited"}
                /\ last' # last =>
                      \E u \in Threads \ {th} :
                          calls[u].pc = "pty" /\ calls'[u].pc = "idle"]_vars

\* Thread b is blocked in the write of a message to the worker of s1,
\* which has not read the line before; thread a waits for the lock in
\* cleanup_on_exit.
W_BlockedWrite ==
    /\ BlockedWrite("b")
    /\ calls["b"].id = "s1"
    /\ calls["a"].op = "cleanup_on_exit"
    /\ calls["a"].pc = "lock"
    /\ mutex.sidecar.owner = "b"
    /\ "s1" \in DOMAIN workers

\* C35: a ToolApprovalResponse has no session id: send_command of it
\* returns an error and nothing is written to any worker; send_to_session
\* with an explicit registered id, whose worker has its stdin open, writes
\* that one line to the stdin of the worker registered under the id and
\* leaves every other worker and the map as they were.
ToolApprovalNeedsExplicitId ==
    /\ command_session_id(ToolApprovalResponse) = None
    /\ LET r == send_command(workers, procs, ToolApprovalResponse)
       IN  /\ r.result = "NoSessionId"
           /\ r.fx = << >>
           /\ r.workers = workers
           /\ r.procs = procs
    /\ \A s \in DOMAIN workers :
          procs[workers[s]].child_stdin = "open" =>
              LET r == send_to_session(workers, procs, s, ToolApprovalResponse)
              IN  /\ r.result = "Ok"
                  /\ r.fx = << FxLine("write", workers[s], s,
                                      to_string(ToolApprovalResponse)) >>
                  /\ r.procs[workers[s]].stdin
                        = Append(procs[workers[s]].stdin,
                                 to_string(ToolApprovalResponse))
                  /\ \A p \in Pids \ {workers[s]} : r.procs[p] = procs[p]
                  /\ r.workers = workers

\* respond_tool_approval has just written the response to one of two
\* registered workers: the other has received its initial line only.
W_ToolApprovalSent ==
    /\ last.op = "respond_tool_approval"
    /\ last.result = "Ok"
    /\ DOMAIN workers = {"s1", "s2"}
    /\ \E s \in DOMAIN workers :
          /\ Len(procs[workers[s]].stdin) = 2
          /\ procs[workers[s]].stdin[2].type = "tool_approval_response"
          /\ \A k \in DOMAIN workers \ {s} : Len(procs[workers[k]].stdin) = 1

EmitFails(p) ==
    /\ TakesLineOf(p)
    /\ Len(sink') = Len(sink) + 1
    /\ sink'[Len(sink')].pid = p
    /\ ~sink'[Len(sink')].delivered

\* C33: an emit that fails is ignored by the relay of a worker.  The step
\* of the failed emit leaves the thread running, the worker as it was, the
\* registry as it was, and no call returns in it; what the loop does with a
\* line does not depend on whether the emit succeeded; and whatever emits
\* failed before, the events of the lines read so far, as long as they were
\* text, are in the sink in the order of the lines.
EmitFailureIsIgnored ==
    /\ [](\A p \in Pids :
            /\ \A l \in StdoutLines :
                  LET item == lines_next(<< l >>, 0, TRUE)
                      ok == read_worker_output(item, p, TRUE)
                      failed == read_worker_output(item, p, FALSE)
                  IN  /\ failed.reader = ok.reader
                      /\ Len(failed.emit) = Len(ok.emit)
                      /\ \A i \in 1..Len(ok.emit) :
                            failed.emit[i] = [ok.emit[i] EXCEPT !.delivered = FALSE]
            /\ (\A i \in 1..consumed[p] : stdout[p][i].utf8)
                  => [i \in 1..Len(SinkOf(p)) |-> SinkOf(p)[i].event]
                        = Decodable(Yielded(p)))
    /\ [][\A p \in Pids :
            EmitFails(p) =>
                /\ procs'[p].stdout_reader = "running"
                /\ procs'[p].state = procs[p].state
                /\ workers' = workers
                /\ last' = last]_vars

\* The relay of a running, registered worker made an emit that failed and
\* then forwarded the event of a later line, and is still running.
W_ForwardedAfterFailure ==
    \E p \in Pids :
        /\ Len(sink) = 2
        /\ sink[1].pid = p /\ ~sink[1].delivered
        /\ sink[2].pid = p /\ sink[2].delivered
        /\ procs[p].stdout_reader = "running"
        /\ procs[p].state = "running"
        /\ procs[p].sid \in DOMAIN workers

\* The reader thread of PTY session p reads bytes and ends in the same
\* step: the send of their Output failed.
OutputSendFails(p) ==
    /\ ptys[p].reader = "running"
    /\ ptys'[p].reader = "ended"
    /\ ptys'[p].nread > ptys[p].nread

\* C34: when the send of an Output fails, the reader thread of the terminal
\* ends in that step having sent the Output and nothing else, neither Exit
\* nor Error; it sends and reads nothing afterwards, whatever its child
\* prints; the step changes neither the map nor the child nor the master
\* or writer of the terminal, and no call returns in it.
ClosedChannelEndsReader ==
    /\ [][\A p \in Pids :
            OutputSendFails(p) =>
                /\ ptys'[p].channel
                      = Append(ptys[p].channel,
                               Output(encode(SubSeq(ptys[p].output, ptys[p].nread + 1,
                                                    ptys'[p].nread))))
                /\ sessions' = sessions
                /\ ptys'[p] = [ptys[p] EXCEPT !.channel = ptys'[p].channel,
                                              !.nread = ptys'[p].nread,
                                              !.reader = "ended"]
                /\ last' = last]_vars
    /\ [][\A p \in Pids :
            (ptys[p].reader = "ended" /\ ptys'[p] # NoPty)
                => /\ ptys'[p].channel = ptys[p].channel
                   /\ ptys'[p].nread = ptys[p].nread
                   /\ ptys'[p].reader = "ended"]_vars
    /\ [](\A p \in Pids :
            (/\ ptys[p].reader = "ended"
             /\ ptys[p].channel # << >>
             /\ ptys[p].channel[Len(ptys[p].channel)].type = "Output")
                => \A i \in 1..Len(ptys[p].channel) : ptys[p].channel[i].type = "Output")

\* The reader thread of the registered terminal t1 has ended on an Output
\* it could not send; the child runs and has printed bytes that were not
\* read.
W_ReaderEndedOnClosedChannel ==
    /\ "t1" \in DOMAIN sessions
    /\ LET pty == ptys[sessions["t1"]]
       IN  /\ pty.reader = "ended"
           /\ pty.child = "running"
           /\ pty.channel = << Output(encode(<< 10 >>)) >>
           /\ pty.nread = 1
           /\ Len(pty.output) > 1

\* start_terminal of an id that is not registered, failing at one of its
\* four steps, returned r: the map is as it was, no reader thread was
\* started and nothing sent for the slot the call opened.
FailedStartLeavesRegistry(r) ==
    /\ r.result = "SpawnFailure"
    /\ r.sessions = sessions
    /\ \A p \in Pids :
          r.ptys[p] # ptys[p] =>
              /\ r.ptys[p].reader = "none"
              /\ r.ptys[p].channel = << >>

\* C36: a start_terminal that fails at any of its steps leaves the map as
\* it was, starts no reader thread, sends no event, and leaves no child it
\* spawned running outside the map.
FailedStartTerminalLeavesNothing ==
    /\ \A t \in TerminalIds \ DOMAIN sessions, size \in Sizes,
          env \in PtyStartEnv \ {"runs"} :
          (FreePtys(ptys) # {}) =>
              LET r == start_terminal(sessions, ptys, t, size[1], size[2], env)
              IN  /\ FailedStartLeavesRegistry(r)
                  /\ \A p \in Pids :
                        (r.ptys[p] # ptys[p] /\ r.ptys[p].child = "running")
                            => \E k \in DOMAIN r.sessions : r.sessions[k] = p
    /\ \A p \in Pids : ptys[p].reader = "none" => ptys[p].channel = << >>

\* The parts of C36 other than the fate of the child.
FailedStartTerminalKeepsRegistry ==
    /\ \A t \in TerminalIds \ DOMAIN sessions, size \in Sizes,
          env \in PtyStartEnv \ {"runs"} :
          (FreePtys(ptys) # {}) =>
              FailedStartLeavesRegistry(
                  start_terminal(sessions, ptys, t, size[1], size[2], env))
    /\ \A p \in Pids : ptys[p].reader = "none" => ptys[p].channel = << >>

\* The waiter thread of shell c removes an entry in this step.
WaiterOf(c) ==
    /\ pty_state.shells[c].waiter = "emitted"
    /\ pty_state'.shells[c].waiter # "emitted"

\* C38: the waiter thread of a shell removes only the entry that was
\* inserted with that shell: when the entry of its pty_id is by then that
\* of a shell spawned later, the entry stays and the later shell keeps its
\* session.
WaiterRemovesOnlyItsEntry ==
    [][\A c \in Pids :
          (/\ WaiterOf(c)
           /\ contains_key(pty_state.sessions, pty_state.shells[c].pty_id)
           /\ pty_state.sessions[pty_state.shells[c].pty_id] # c)
              => /\ pty_state'.sessions = pty_state.sessions
                 /\ \A d \in Pids \ {c} :
                       pty_state'.shells[d].session = pty_state.shells[d].session]_vars

\* C31: per session id the sink gets events from one worker at a time:
\* once a worker started for the id after remove_session has an event in
\* the sink, the relay of the removed worker emits nothing more.
OneRelayPerSessionAtATime ==
    [][\A p, q \in Pids :
          (/\ p # q
           /\ procs[p].sid = procs[q].sid
           /\ procs[p].state = "reaped"
           /\ Registered(q)
           /\ SinkOf(q) # << >>)
              => SinkOf(p)' = SinkOf(p)]_vars

\* C32: a reader thread does not outlive its process for ever: once
\* remove_session, close or shutdown has killed and waited for the child,
\* the stdout relay and the stderr drain of a worker, and the reader
\* thread of a terminal, end.
ReadersEndWithTheirProcess ==
    \A p \in Pids :
        /\ (procs[p].state = "reaped" /\ procs[p].stdout_reader = "running")
              ~> (procs[p].stdout_reader # "running")
        /\ (procs[p].state = "reaped" /\ stderr_reader[p] = "running")
              ~> (stderr_reader[p] = "ended")
        /\ (ptys[p].child = "reaped" /\ ptys[p].reader = "running")
              ~> (ptys[p].reader # "running")

\* The worker of s1 was killed by remove_session; its relay, having
\* forwarded the line the worker printed, and its drain have ended.
W_ReadersEnded ==
    /\ workers = << >>
    /\ procs[1] = NoProc
    /\ stderr_reader[1] = "ended"
    /\ Len(sink) = 1
    /\ consumed[1] = 1
    /\ last.op = "abort_agent_session"

====
